---------------------------- MODULE Spec2Model ----------------------------
(***************************************************************************)
(* Model of the rule-based bank-statement core of                          *)
(* Financial-Document-Intelligence:                                        *)
(*   - validators/validation_models.py  (ValidationResult, aggregation)    *)
(*   - validators/balance_validator.py  (BalanceValidator)                 *)
(*   - validators/date_validator.py     (DateSequencingValidator)          *)
(*   - extraction_validator.py          (ExtractionValidator)              *)
(*   - excel_to_json_converter.py       (ExcelToJSONConverter)             *)
(*                                                                         *)
(* Amounts are integers counting half-cents (0.005), so that the           *)
(* two-decimal quantisation of BalanceValidator._to_decimal is a real      *)
(* conversion: 2001 is 10.005 and quantises to 2002 (10.01).               *)
(* Dates are integers counting days.  An Optional value is the empty       *)
(* sequence (None) or a one-element sequence.                              *)
(***************************************************************************)
EXTENDS Integers, Sequences, FiniteSets, TLC

VARIABLES
    results,         \* Dict[str, ValidationResult] in insertion order
    aggregated,      \* sequence holding the AggregatedValidationResult built last
    statement_data,  \* the statement dict handed to a validator
    today,           \* datetime.now(), as a day
    result,          \* sequence holding the ValidationResult a validator returned
    issues,          \* ExtractionValidator.issues of the process-wide instance
    validation,      \* sequence holding what ExtractionValidator.validate returned
    sheet,           \* the frame pd.read_excel returned for the file
    conv,            \* the locals of ExcelToJSONConverter.convert and its result
    workers,         \* the threads inside ExtractionValidator.validate
    calls,           \* the convert calls made on the converter instances
    statements,      \* the list handed to a multi-statement validator
    singletons,      \* the module globals _balance_validator, _date_validator
    pc               \* position of the run

vars == <<results, aggregated, statement_data, today, result, issues,
          validation, sheet, conv, workers, calls,
          statements, singletons, pc>>

\* what a validator run reads and writes
runVars == <<statement_data, today, result>>
\* what ExtractionValidator.validate writes
evVars == <<issues, validation>>
\* what the ValidationResult collection of SpecModels reads and writes
modelVars == <<results, aggregated>>
\* what ExcelToJSONConverter.convert reads and writes
convVars == <<sheet, conv>>

None == <<>>
Some(v) == <<v>>
Val(o) == o[1]

Abs(x) == IF x < 0 THEN -x ELSE x

RECURSIVE SumSeq(_)
SumSeq(s) == IF s = <<>> THEN 0 ELSE Head(s) + SumSeq(Tail(s))

(***************************************************************************)
(* Text.  A Python str is a sequence of one-character strings.             *)
(***************************************************************************)
UpperLetters == <<"A", "B", "C", "D", "E", "F", "G", "H", "I", "J", "K", "L", "M",
                  "N", "O", "P", "Q", "R", "S", "T", "U", "V", "W", "X", "Y", "Z">>
LowerLetters == <<"a", "b", "c", "d", "e", "f", "g", "h", "i", "j", "k", "l", "m",
                  "n", "o", "p", "q", "r", "s", "t", "u", "v", "w", "x", "y", "z">>
Digits == <<"0", "1", "2", "3", "4", "5", "6", "7", "8", "9">>

Range(s) == {s[i] : i \in 1..Len(s)}

\* Binding an argument through a singleton set has it evaluated once.

\* the lower-case letter of each upper-case letter, and the reverse
ToLower == [c \in Range(UpperLetters) |->
               LowerLetters[CHOOSE k \in 1..Len(UpperLetters) : UpperLetters[k] = c]]
ToUpper == [c \in Range(LowerLetters) |->
               UpperLetters[CHOOSE k \in 1..Len(LowerLetters) : LowerLetters[k] = c]]

\* str.lower()
Lower(s) ==
    CHOOSE r \in {[i \in 1..Len(t) |->
                      IF t[i] \in DOMAIN ToLower THEN ToLower[t[i]] ELSE t[i]] :
                  t \in {s}} : TRUE

\* str.upper()
Upper(s) ==
    CHOOSE r \in {[i \in 1..Len(t) |->
                      IF t[i] \in DOMAIN ToUpper THEN ToUpper[t[i]] ELSE t[i]] :
                  t \in {s}} : TRUE

\* str.lstrip() of blanks
LStrip(s) ==
    CHOOSE r \in {LET blanks == {i \in 1..Len(t) : \A k \in 1..i : t[k] = " "}
                  IN  SubSeq(t, Cardinality(blanks) + 1, Len(t)) :
                  t \in {s}} : TRUE

\* str.rstrip() of blanks
RStrip(s) ==
    CHOOSE r \in {LET blanks == {i \in 1..Len(t) : \A k \in i..Len(t) : t[k] = " "}
                  IN  SubSeq(t, 1, Len(t) - Cardinality(blanks)) :
                  t \in {s}} : TRUE

\* str.strip()
Strip(s) == RStrip(LStrip(s))

\* pat in s
Contains(s, pat) ==
    \E t \in {s} :
        \E i \in 0..(Len(t) - Len(pat)) : SubSeq(t, i + 1, i + Len(pat)) = pat

\* any(pat in s for pat in pats)
ContainsAny(s, pats) == \E t \in {s} : \E pat \in pats : Contains(t, pat)

RECURSIVE Replace(_, _, _)
\* s.replace(old, new), old not empty
Replace(s, old, new) ==
    CHOOSE r \in
        {IF Len(t) < Len(old) THEN t
         ELSE IF SubSeq(t, 1, Len(old)) = old
         THEN new \o Replace(SubSeq(t, Len(old) + 1, Len(t)), old, new)
         ELSE <<Head(t)>> \o Replace(Tail(t), old, new) :
         t \in {s}} : TRUE

RECURSIVE Join(_)
\* ' '.join(parts)
Join(parts) ==
    CHOOSE r \in
        {IF p = <<>> THEN <<>>
         ELSE IF Len(p) = 1 THEN p[1]
         ELSE p[1] \o <<" ">> \o Join(Tail(p)) :
         p \in {parts}} : TRUE

(***************************************************************************)
(* validators/validation_models.py                                         *)
(***************************************************************************)

\* ValidationError(error_type, severity, message, field, ..., context):
\* field f"transactions[{idx}]..." is written with idx left symbolic and the
\* index kept in index (-1 when the error is about no transaction).
\* message is the text of the message without the values formatted into it.
ValidationError(error_type, severity, message, field, index) ==
    [error_type |-> error_type, severity |-> severity, message |-> message,
     field |-> field, index |-> index]

\* ValidationWarning(warning_type, message, field, ..., context):
\* indices is context["indices"] (empty when the context has none).
ValidationWarning(warning_type, field, indices) ==
    [warning_type |-> warning_type, field |-> field, indices |-> indices]

\* ValidationResult(validator_name=..., status="passed", passed=True)
ValidationResult(validator_name) ==
    [validator_name |-> validator_name, status |-> "passed", passed |-> TRUE,
     errors |-> <<>>, warnings |-> <<>>]

error_count(r) == Len(r.errors)
warning_count(r) == Len(r.warnings)

add_error(r, e) ==
    [r EXCEPT !.errors = Append(@, e),
              !.passed = FALSE,
              !.status = IF @ = "passed" THEN "failed" ELSE @]

add_warning(r, w) ==
    [r EXCEPT !.warnings = Append(@, w),
              !.status = IF @ = "passed" THEN "warnings" ELSE @]

RECURSIVE SumBy(_, _)
\* sum(f(r) for r in results.values()), f one of "errors", "warnings"
SumBy(rs, f) ==
    IF rs = <<>> THEN 0
    ELSE (IF f = "errors" THEN error_count(Head(rs)) ELSE warning_count(Head(rs)))
         + SumBy(Tail(rs), f)

\* A plausible slip: the aggregate trusts each result's status field instead
\* of counting its issues.
from_results_by_status(statement_id, rs) ==
    LET failed == \E i \in 1..Len(rs) : rs[i].status = "failed"
        warned == \E i \in 1..Len(rs) : rs[i].status = "warnings"
    IN  [statement_id |-> statement_id,
         overall_status |-> IF failed THEN "failed"
                            ELSE IF warned THEN "warnings" ELSE "passed",
         validators_run |-> [i \in 1..Len(rs) |-> rs[i].validator_name],
         results |-> rs,
         total_errors |-> SumBy(rs, "errors"),
         total_warnings |-> SumBy(rs, "warnings")]

\* AggregatedValidationResult.from_results
from_results(statement_id, rs) ==
    LET total_errors == SumBy(rs, "errors")
        total_warnings == SumBy(rs, "warnings")
        overall_status == IF total_errors > 0 THEN "failed"
                          ELSE IF total_warnings > 0 THEN "warnings"
                          ELSE "passed"
    IN  [statement_id |-> statement_id,
         overall_status |-> overall_status,
         validators_run |-> [i \in 1..Len(rs) |-> rs[i].validator_name],
         results |-> rs,
         total_errors |-> total_errors,
         total_warnings |-> total_warnings]

(***************************************************************************)
(* validators/balance_validator.py                                         *)
(***************************************************************************)

\* BalanceValidator(tolerance=0.01): Decimal("0.01"), two half-cents
tolerance == 2

\* BalanceValidator.__init__(tolerance): the instance keeps the tolerance
BalanceValidator(tol) ==
    [validator_name |-> "balance_validator", tolerance |-> tol]

\* DateSequencingValidator.__init__(max_gap_days)
DateSequencingValidator(gap) ==
    [validator_name |-> "date_sequencing_validator", max_gap_days |-> gap]

\* the module globals before the first call of a factory: both None
NoSingletons == [_balance_validator |-> None, _date_validator |-> None]

\* get_balance_validator(tolerance): the global after the call, which holds
\* the instance returned; an instance is built only while the global is None
get_balance_validator(current, tol) ==
    IF current = None THEN Some(BalanceValidator(tol)) ELSE current

\* get_date_validator(max_gap_days), likewise
get_date_validator(current, gap) ==
    IF current = None THEN Some(DateSequencingValidator(gap)) ELSE current

\* Decimal.quantize(Decimal('0.01'), rounding=ROUND_HALF_UP): to the nearest
\* cent, a half-cent going away from zero
quantize(v) ==
    IF v >= 0 THEN ((v + 1) \div 2) * 2 ELSE -((((-v) + 1) \div 2) * 2)

\* BalanceValidator._to_decimal on None or a number
_to_decimal(value) ==
    IF value = None THEN None ELSE Some(quantize(Val(value)))

\* one entry of statement_data["transactions"]
Transaction(date, description, debit, credit, balance) ==
    [date |-> date, description |-> description, debit |-> debit,
     credit |-> credit, balance |-> balance]

\* A plausible slip: the tolerance itself is already reported as a mismatch.
_validate_opening_closing_strict(sd, r) ==
    LET opening == _to_decimal(sd.opening_balance)
        closing == _to_decimal(sd.closing_balance)
        total_credits == _to_decimal(sd.total_credits)
        total_debits == _to_decimal(sd.total_debits)
    IN  IF opening = None \/ closing = None
        THEN add_error(r, ValidationError("missing_balance", "error", "Missing opening or closing balance",
                                          "opening_balance/closing_balance", -1))
        ELSE IF total_credits = None \/ total_debits = None
        THEN add_error(r, ValidationError("calculation_error", "error", "Failed to validate opening/closing balance", "", -1))
        ELSE LET expected_closing ==
                     Val(opening) + Val(total_credits) - Val(total_debits)
                 difference == Abs(Val(closing) - expected_closing)
             IN  IF difference >= tolerance
                 THEN add_error(r, ValidationError("balance_mismatch", "error", "Closing balance mismatch",
                                                   "closing_balance", -1))
                 ELSE IF difference > 0
                 THEN add_warning(r, ValidationWarning("minor_balance_difference",
                                                       "closing_balance", <<>>))
                 ELSE r

\* BalanceValidator._validate_opening_closing.  A total that is None makes
\* opening + total_credits raise TypeError, which the except clause turns
\* into a calculation_error.
_validate_opening_closing(sd, r) ==
    LET opening == _to_decimal(sd.opening_balance)
        closing == _to_decimal(sd.closing_balance)
        total_credits == _to_decimal(sd.total_credits)
        total_debits == _to_decimal(sd.total_debits)
    IN  IF opening = None \/ closing = None
        THEN add_error(r, ValidationError("missing_balance", "error", "Missing opening or closing balance",
                                          "opening_balance/closing_balance", -1))
        ELSE IF total_credits = None \/ total_debits = None
        THEN add_error(r, ValidationError("calculation_error", "error", "Failed to validate opening/closing balance", "", -1))
        ELSE LET expected_closing ==
                     Val(opening) + Val(total_credits) - Val(total_debits)
                 difference == Abs(Val(closing) - expected_closing)
             IN  IF difference > tolerance
                 THEN add_error(r, ValidationError("balance_mismatch", "error", "Closing balance mismatch",
                                                   "closing_balance", -1))
                 ELSE IF difference > 0
                 THEN add_warning(r, ValidationWarning("minor_balance_difference",
                                                       "closing_balance", <<>>))
                 ELSE r

\* the except clause of the per-transaction try block: add_error with
\* severity=ValidationSeverity.WARNING
TransactionFailed(r, idx) ==
    add_error(r, ValidationError("calculation_error", "warning", "Validation failed", "transactions[idx]", idx))

RECURSIVE WalkTransactionBalances(_, _, _, _)
\* the for loop of BalanceValidator._validate_transaction_balances from
\* index idx (0-based) on, with the running balance it has there
WalkTransactionBalances(transactions, idx, running_balance, r) ==
    IF idx >= Len(transactions) THEN r
    ELSE
    LET transaction == transactions[idx + 1]
        debit == _to_decimal(transaction.debit)
        credit == _to_decimal(transaction.credit)
        stated_balance == _to_decimal(transaction.balance)
    IN  IF credit = None \/ (Val(credit) <= 0 /\ debit = None)
        THEN \* credit > 0 or running_balance - debit raises TypeError
             WalkTransactionBalances(transactions, idx + 1, running_balance,
                                     TransactionFailed(r, idx))
        ELSE
        LET expected_balance == IF Val(credit) > 0
                                THEN running_balance + Val(credit)
                                ELSE running_balance - Val(debit)
        IN  IF stated_balance # None
            THEN IF Abs(Val(stated_balance) - expected_balance) > tolerance
                 THEN IF debit = None \/ transaction.description = None
                      THEN \* float(debit) or description[:50] raises TypeError
                           WalkTransactionBalances(transactions, idx + 1,
                               running_balance, TransactionFailed(r, idx))
                      ELSE \* the running balance is left as it was
                           WalkTransactionBalances(transactions, idx + 1,
                               running_balance,
                               add_error(r, ValidationError("balance_mismatch", "error", "Balance mismatch", "transactions[idx].balance", idx)))
                 ELSE WalkTransactionBalances(transactions, idx + 1,
                          Val(stated_balance), r)
            ELSE WalkTransactionBalances(transactions, idx + 1,
                     expected_balance, r)

\* BalanceValidator._validate_transaction_balances
_validate_transaction_balances(sd, r) ==
    IF sd.transactions = <<>>
    THEN add_warning(r, ValidationWarning("no_transactions", "", <<>>))
    ELSE LET opening_balance == _to_decimal(sd.opening_balance)
         IN  IF opening_balance = None THEN r
             ELSE WalkTransactionBalances(sd.transactions, 0,
                                          Val(opening_balance), r)

\* sum(self._to_decimal(t.get(f, 0)) for t in transactions), f "credit" or "debit"
ActualTotal(transactions, f) ==
    SumSeq([i \in 1..Len(transactions) |->
               Val(_to_decimal(IF f = "credit" THEN transactions[i].credit
                                               ELSE transactions[i].debit))])

\* BalanceValidator._validate_totals
_validate_totals(sd, r) ==
    IF sd.transactions = <<>> THEN r
    ELSE
    LET stated_credits == _to_decimal(sd.total_credits)
        stated_debits == _to_decimal(sd.total_debits)
        actual_credits == ActualTotal(sd.transactions, "credit")
        actual_debits == ActualTotal(sd.transactions, "debit")
        r1 == IF stated_credits # None
                 /\ Abs(Val(stated_credits) - actual_credits) > tolerance
              THEN add_error(r, ValidationError("calculation_error", "error", "Total credits mismatch",
                                                "total_credits", -1))
              ELSE r
    IN  IF stated_debits # None
           /\ Abs(Val(stated_debits) - actual_debits) > tolerance
        THEN add_error(r1, ValidationError("calculation_error", "error", "Total debits mismatch",
                                           "total_debits", -1))
        ELSE r1

\* _validate_totals sums outside any try block: a transaction whose credit or
\* debit is None makes sum() raise TypeError out of validate_statement
BalanceValidatorRaises(sd) ==
    \E i \in 1..Len(sd.transactions) :
        sd.transactions[i].credit = None \/ sd.transactions[i].debit = None

\* BalanceValidator.validate_statement, when it returns
validate_statement(sd) ==
    _validate_totals(sd,
        _validate_transaction_balances(sd,
            _validate_opening_closing(sd, ValidationResult("balance_validator"))))


(***************************************************************************)
(* validators/date_validator.py.  A date value is None, a day number, or   *)
(* Unparsable (a string no format matches).                                *)
(***************************************************************************)

\* a date string that neither fromisoformat nor any strptime format accepts
Unparsable == 0

\* DateSequencingValidator(max_gap_days=60)
max_gap_days == 60

\* a statement period longer than this many days is "unusually long"
LongPeriodDays == 186

\* DateSequencingValidator._parse_date
_parse_date(date_value) ==
    IF date_value = None THEN None
    ELSE IF Val(date_value) = Unparsable THEN None
    ELSE date_value

\* description.strip().lower()
strip_lower(description) == Lower(Strip(description))

\* DateSequencingValidator._validate_period_dates
_validate_period_dates(sd, now, r) ==
    LET period_from == _parse_date(sd.statement_period_from)
        period_to == _parse_date(sd.statement_period_to)
    IN  IF period_from = None \/ period_to = None
        THEN add_error(r, ValidationError("date_out_of_range", "error", "Missing statement period dates",
                 "statement_period_from/statement_period_to", -1))
        ELSE
        LET r1 == IF Val(period_to) <= Val(period_from)
                  THEN add_error(r, ValidationError("date_out_of_order", "error", "Statement period invalid",
                           "statement_period_to", -1))
                  ELSE r
            r2 == IF Val(period_to) > now
                  THEN add_warning(r1, ValidationWarning("future_date",
                           "statement_period_to", <<>>))
                  ELSE r1
        IN  IF Val(period_to) - Val(period_from) > LongPeriodDays
            THEN add_warning(r2, ValidationWarning("long_period",
                     "statement_period", <<>>))
            ELSE r2

RECURSIVE WalkOrderingFirstOnly(_, _, _, _)
\* A plausible slip: the loop is left at the first date found out of order.
WalkOrderingFirstOnly(transactions, idx, prev_date, r) ==
    IF idx >= Len(transactions) THEN r
    ELSE
    LET current_date == _parse_date(transactions[idx + 1].date) IN
    IF current_date = None
    THEN WalkOrderingFirstOnly(transactions, idx + 1, prev_date,
             add_error(r, ValidationError("date_out_of_range", "error",
                 "Missing or invalid date", "transactions[idx].date", idx)))
    ELSE IF prev_date # None /\ Val(current_date) < Val(prev_date)
    THEN add_error(r, ValidationError("date_out_of_order", "error",
             "Date out of order", "transactions[idx].date", idx))
    ELSE WalkOrderingFirstOnly(transactions, idx + 1, current_date, r)

RECURSIVE WalkOrdering(_, _, _, _)
\* the for loop of DateSequencingValidator._validate_transaction_ordering
\* from index idx (0-based) on
WalkOrdering(transactions, idx, prev_date, r) ==
    IF idx >= Len(transactions) THEN r
    ELSE
    LET current_date == _parse_date(transactions[idx + 1].date) IN
    IF current_date = None
    THEN WalkOrdering(transactions, idx + 1, prev_date,
             add_error(r, ValidationError("date_out_of_range", "error", "Missing or invalid date",
                 "transactions[idx].date", idx)))
    ELSE WalkOrdering(transactions, idx + 1, current_date,
             IF prev_date # None /\ Val(current_date) < Val(prev_date)
             THEN add_error(r, ValidationError("date_out_of_order", "error", "Date out of order",
                      "transactions[idx].date", idx))
             ELSE r)

\* DateSequencingValidator._validate_transaction_ordering
_validate_transaction_ordering(sd, r) ==
    WalkOrdering(sd.transactions, 0, None, r)

RECURSIVE WalkInPeriodExclusive(_, _, _, _, _)
\* A plausible slip: the bounds of the period are taken as outside it.
WalkInPeriodExclusive(transactions, idx, period_from, period_to, r) ==
    IF idx >= Len(transactions) THEN r
    ELSE
    LET trans_date == _parse_date(transactions[idx + 1].date) IN
    WalkInPeriodExclusive(transactions, idx + 1, period_from, period_to,
        IF trans_date # None
           /\ (Val(trans_date) <= period_from \/ Val(trans_date) >= period_to)
        THEN add_error(r, ValidationError("date_out_of_range", "error",
                 "outside statement period", "transactions[idx].date", idx))
        ELSE r)

RECURSIVE WalkInPeriodFromStart(_, _, _, _, _)
\* A plausible slip: only the start of the period is compared.
WalkInPeriodFromStart(transactions, idx, period_from, period_to, r) ==
    IF idx >= Len(transactions) THEN r
    ELSE
    LET trans_date == _parse_date(transactions[idx + 1].date) IN
    WalkInPeriodFromStart(transactions, idx + 1, period_from, period_to,
        IF trans_date # None /\ Val(trans_date) < period_from
        THEN add_error(r, ValidationError("date_out_of_range", "error", "outside statement period",
                 "transactions[idx].date", idx))
        ELSE r)

RECURSIVE WalkInPeriod(_, _, _, _, _)
\* the for loop of DateSequencingValidator._validate_dates_in_period
WalkInPeriod(transactions, idx, period_from, period_to, r) ==
    IF idx >= Len(transactions) THEN r
    ELSE
    LET trans_date == _parse_date(transactions[idx + 1].date) IN
    WalkInPeriod(transactions, idx + 1, period_from, period_to,
        IF trans_date # None
           /\ (Val(trans_date) < period_from \/ Val(trans_date) > period_to)
        THEN add_error(r, ValidationError("date_out_of_range", "error", "outside statement period",
                 "transactions[idx].date", idx))
        ELSE r)

\* DateSequencingValidator._validate_dates_in_period
_validate_dates_in_period(sd, r) ==
    LET period_from == _parse_date(sd.statement_period_from)
        period_to == _parse_date(sd.statement_period_to)
    IN  IF period_from = None \/ period_to = None THEN r
        ELSE WalkInPeriod(sd.transactions, 0, Val(period_from), Val(period_to), r)

\* date_desc_combos of _detect_date_anomalies: <<date, desc, idx>> of every
\* transaction whose date parses, in sequence order, desc compared as given
date_desc_combos_raw(transactions) ==
    LET keep == SelectSeq([i \in 1..Len(transactions) |-> i],
                          LAMBDA i : _parse_date(transactions[i].date) # None)
    IN  [k \in 1..Len(keep) |->
            <<Val(transactions[keep[k]].date),
              Val(transactions[keep[k]].description), keep[k] - 1>>]

\* date_desc_combos of _detect_date_anomalies: <<date, desc, idx>> of every
\* transaction whose date parses, in sequence order
date_desc_combos(transactions) ==
    LET keep == SelectSeq([i \in 1..Len(transactions) |-> i],
                          LAMBDA i : _parse_date(transactions[i].date) # None)
    IN  [k \in 1..Len(keep) |->
            <<Val(transactions[keep[k]].date),
              strip_lower(Val(transactions[keep[k]].description)), keep[k] - 1>>]

RECURSIVE WalkCombos(_, _, _)
\* the loop over combo_counts.items(): a Counter keeps its keys in order of
\* first occurrence, so the k-th combo opens a group when no earlier one has
\* its key
WalkCombos(combos, k, r) ==
    IF k > Len(combos) THEN r
    ELSE
    LET key == <<combos[k][1], combos[k][2]>>
        first == \A j \in 1..(k - 1) : <<combos[j][1], combos[j][2]>> # key
        members == SelectSeq(combos, LAMBDA c : <<c[1], c[2]>> = key)
        duplicate_indices == [m \in 1..Len(members) |-> members[m][3]]
    IN  WalkCombos(combos, k + 1,
            IF first /\ Len(members) > 1
            THEN add_warning(r, ValidationWarning("possible_duplicate",
                     "transactions", duplicate_indices))
            ELSE r)

\* DateSequencingValidator._detect_date_anomalies
_detect_date_anomalies(sd, r) ==
    IF Len(sd.transactions) < 2 THEN r
    ELSE WalkCombos(date_desc_combos(sd.transactions), 1, r)

RECURSIVE WalkGaps(_, _, _)
\* the loop of _check_transaction_gaps over the sorted dates
WalkGaps(dates, i, r) ==
    IF i >= Len(dates) THEN r
    ELSE WalkGaps(dates, i + 1,
             IF dates[i + 1] - dates[i] > max_gap_days
             THEN add_warning(r, ValidationWarning("large_transaction_gap",
                      "transactions", <<>>))
             ELSE r)

\* DateSequencingValidator._check_transaction_gaps
_check_transaction_gaps(sd, r) ==
    IF Len(sd.transactions) < 2 THEN r
    ELSE
    LET parsed == SelectSeq([i \in 1..Len(sd.transactions) |->
                                _parse_date(sd.transactions[i].date)],
                            LAMBDA dt : dt # None)
        dates == SortSeq([i \in 1..Len(parsed) |-> Val(parsed[i])],
                         LAMBDA a, b : a < b)
    IN  IF Len(dates) < 2 THEN r ELSE WalkGaps(dates, 1, r)

\* the checks of DateSequencingValidator.validate_statement that can add an
\* error: checks 1 to 3
date_checks_1_to_3(sd, now) ==
    _validate_dates_in_period(sd,
        _validate_transaction_ordering(sd,
            _validate_period_dates(sd, now,
                ValidationResult("date_sequencing_validator"))))

\* DateSequencingValidator.validate_statement, when it returns
date_validate_statement(sd, now) ==
    _check_transaction_gaps(sd,
        _detect_date_anomalies(sd, date_checks_1_to_3(sd, now)))

\* description[:50] and description.strip() are taken outside any try
\* block: a transaction whose description is None raises out of
\* validate_statement wherever one of them is evaluated
DateValidatorRaises(sd) ==
    LET period_from == _parse_date(sd.statement_period_from)
        period_to == _parse_date(sd.statement_period_to)
    IN  \E i \in 1..Len(sd.transactions) :
           /\ sd.transactions[i].description = None
           /\ LET dt == _parse_date(sd.transactions[i].date)
              IN  \/ dt = None
                  \/ Len(sd.transactions) >= 2
                  \/ /\ period_from # None /\ period_to # None
                     /\ (Val(dt) < Val(period_from) \/ Val(dt) > Val(period_to))


(***************************************************************************)
(* extraction_validator.py.  ExtractionValidator works on floats; the      *)
(* model computes on the half-cent integers without rounding.              *)
(***************************************************************************)

\* ExtractionValidator.BALANCE_TOLERANCE = 0.50, one hundred half-cents
BALANCE_TOLERANCE == 100

\* ValidationIssue(issue_type, severity, message, details): index is
\* details["transaction_index"], or the transaction the message names, or -1
ValidationIssue(issue_type, severity, index) ==
    [issue_type |-> issue_type, severity |-> severity, index |-> index]

\* ExtractionValidator._validate_completeness: REQUIRED_FIELDS in order, then
\* the transaction count
_validate_completeness(data, iss) ==
    LET miss(f, v, acc) ==
            IF v = None
            THEN Append(acc, ValidationIssue("missing_required_field", "ERROR", -1))
            ELSE acc
        i1 == miss("statement_period_from", data.statement_period_from, iss)
        i2 == miss("statement_period_to", data.statement_period_to, i1)
        i3 == miss("opening_balance", data.opening_balance, i2)
        i4 == miss("closing_balance", data.closing_balance, i3)
    IN  IF data.number_of_transactions # Len(data.transactions)
        THEN Append(i4, ValidationIssue("transaction_count_mismatch", "WARNING", -1))
        ELSE i4

RECURSIVE WalkProgression(_, _, _, _)
\* the for loop of ExtractionValidator._validate_transaction_balances from
\* index i (0-based) on; float(None) raises TypeError, which skips the row
WalkProgression(transactions, i, prev_balance, iss) ==
    IF i >= Len(transactions) THEN iss
    ELSE
    LET txn == transactions[i + 1] IN
    IF txn.debit = None \/ txn.credit = None \/ txn.balance = None
    THEN WalkProgression(transactions, i + 1, prev_balance, iss)
    ELSE
    LET balance == Val(txn.balance)
        expected_balance == prev_balance + Val(txn.credit) - Val(txn.debit)
        difference == Abs(balance - expected_balance)
    IN  WalkProgression(transactions, i + 1, balance,
            IF difference > BALANCE_TOLERANCE
            THEN Append(iss, ValidationIssue("balance_progression_error", "WARNING", i))
            ELSE iss)

\* ExtractionValidator._validate_balance_reconciliation, with the call of
\* _validate_transaction_balances it ends with
_validate_balance_reconciliation(data, iss) ==
    IF data.opening_balance = None \/ data.closing_balance = None
       \/ data.total_credits = None \/ data.total_debits = None
    THEN \* float(None) raises TypeError
         Append(iss, ValidationIssue("balance_mismatch", "ERROR", -1))
    ELSE
    LET opening == Val(data.opening_balance)
        closing == Val(data.closing_balance)
        expected_closing == opening + Val(data.total_credits) - Val(data.total_debits)
        difference == Abs(closing - expected_closing)
        is_balanced == difference <= BALANCE_TOLERANCE
        iss1 == IF ~is_balanced
                THEN Append(iss, ValidationIssue("balance_mismatch", "ERROR", -1))
                ELSE iss
    IN  WalkProgression(data.transactions, 0, opening, iss1)

\* ExtractionValidator._parse_date
ExtractionValidator_parse_date(date_str) ==
    IF date_str = None THEN None
    ELSE IF Val(date_str) = Unparsable THEN None
    ELSE date_str

RECURSIVE WalkDates(_, _, _, _, _)
\* the for loop of ExtractionValidator._validate_dates from index i (0-based)
\* on; prev_date is None or the date of the last transaction that had one
WalkDates(transactions, i, prev_date, now, iss) ==
    IF i >= Len(transactions) THEN iss
    ELSE
    LET txn_date == ExtractionValidator_parse_date(transactions[i + 1].date) IN
    IF txn_date = None
    THEN WalkDates(transactions, i + 1, prev_date, now,
                   Append(iss, ValidationIssue("date_format_error", "WARNING", i)))
    ELSE
    LET iss1 == IF Val(txn_date) > now
                THEN Append(iss, ValidationIssue("future_date", "WARNING", i))
                ELSE iss
        iss2 == IF prev_date # None /\ Val(txn_date) < Val(prev_date)
                THEN Append(iss1, ValidationIssue("date_chronology_error", "WARNING", i))
                ELSE iss1
    IN  WalkDates(transactions, i + 1, txn_date, now, iss2)

\* ExtractionValidator._validate_dates
_validate_dates(data, now, iss) ==
    LET from_date == ExtractionValidator_parse_date(data.statement_period_from)
        to_date == ExtractionValidator_parse_date(data.statement_period_to)
        iss1 == IF from_date # None /\ to_date # None /\ Val(from_date) > Val(to_date)
                THEN Append(iss, ValidationIssue("date_chronology_error", "ERROR", -1))
                ELSE iss
    IN  WalkDates(data.transactions, 0, None, now, iss1)

\* self.issues when ExtractionValidator.validate returns
validate_issues(data, now) ==
    _validate_dates(data, now,
        _validate_balance_reconciliation(data,
            _validate_completeness(data, <<>>)))

\* ExtractionValidator.validate: the ValidationResult it builds from self.issues
validate(data, now) ==
    LET iss == validate_issues(data, now)
        has_errors == \E i \in 1..Len(iss) : iss[i].severity = "ERROR"
        has_warnings == \E i \in 1..Len(iss) : iss[i].severity = "WARNING"
    IN  [is_valid |-> ~has_errors,
         validation_level |-> IF has_errors THEN "CRITICAL_ERRORS"
                              ELSE IF has_warnings THEN "WARNINGS" ELSE "PASSED",
         issues |-> iss]

\* validation_result = get_validator().validate(statement_data)
ExtractionValidate ==
    /\ pc = "ready"
    /\ validation' = <<validate(statement_data, today)>>
    /\ issues' = validation'[1].issues
    /\ pc' = "validated"
    /\ UNCHANGED <<singletons, statements, calls, workers, modelVars, runVars, convVars>>


(***************************************************************************)
(* excel_to_json_converter.py.  A grid (DataFrame) is a sequence of rows,  *)
(* each a sequence of cells.  A cell is empty (NaN), a number, a timestamp *)
(* or a text.  What pandas.to_datetime and the format list read out of a   *)
(* text is a property of the text and travels with the cell.               *)
(***************************************************************************)
NaN == [kind |-> "nan", chars |-> <<>>, num |-> 0, date |-> None]
\* a numeric cell, in half-cents
Num(v) == [kind |-> "num", chars |-> <<>>, num |-> v, date |-> None]
\* a pandas Timestamp / datetime cell
Timestamp(day) == [kind |-> "date", chars |-> <<>>, num |-> 0, date |-> Some(day)]
\* a text cell; date is the day the date parsers read out of it, or None
Text(chars, date) == [kind |-> "text", chars |-> chars, num |-> 0, date |-> date]

\* pd.isna(val) / pd.notna(val)
isna(cell) == cell.kind = "nan"
notna(cell) == ~isna(cell)

RECURSIVE StrNat(_)
\* str(n) for an int n >= 0
StrNat(n) == IF n < 10 THEN <<Digits[n + 1]>>
             ELSE StrNat(n \div 10) \o <<Digits[(n % 10) + 1]>>

\* the digits after the decimal point of repr(float): thousandths t of a
\* value, without trailing zeros, at least one digit
StrFraction(t) ==
    IF t % 100 = 0 THEN <<Digits[(t \div 100) + 1]>>
    ELSE IF t % 10 = 0 THEN <<Digits[(t \div 100) + 1], Digits[((t \div 10) % 10) + 1]>>
    ELSE <<Digits[(t \div 100) + 1], Digits[((t \div 10) % 10) + 1], Digits[(t % 10) + 1]>>

\* str(x) of a float x given in half-cents
StrNum(v) ==
    (IF v < 0 THEN <<"-">> ELSE <<>>)
    \o StrNat(Abs(v) \div 200) \o <<".">> \o StrFraction((Abs(v) % 200) * 5)

\* Timestamp.strftime('%Y-%m-%d'); the model's days are days of January 2024
strftime(day) ==
    <<"2", "0", "2", "4", "-", "0", "1", "-">>
    \o <<Digits[(day \div 10) + 1], Digits[(day % 10) + 1]>>

\* str(val) of a cell
str(cell) ==
    CASE cell.kind = "nan" -> <<"n", "a", "n">>
      [] cell.kind = "num" -> StrNum(cell.num)
      [] cell.kind = "date" ->
             strftime(Val(cell.date)) \o <<" ", "0", "0", ":", "0", "0", ":", "0", "0">>
      [] OTHER -> cell.chars

DATE_PATTERNS ==
    {<<"d", "a", "t", "e">>,
     <<"t", "r", "a", "n", " ", "d", "a", "t", "e">>,
     <<"t", "x", "n", " ", "d", "a", "t", "e">>,
     <<"t", "r", "a", "n", "s", "a", "c", "t", "i", "o", "n", " ", "d", "a", "t", "e">>,
     <<"v", "a", "l", "u", "e", " ", "d", "a", "t", "e">>}
DESCRIPTION_PATTERNS ==
    {<<"d", "e", "s", "c", "r", "i", "p", "t", "i", "o", "n">>,
     <<"n", "a", "r", "r", "a", "t", "i", "o", "n">>,
     <<"p", "a", "r", "t", "i", "c", "u", "l", "a", "r", "s">>,
     <<"d", "e", "t", "a", "i", "l", "s">>,
     <<"t", "r", "a", "n", "s", "a", "c", "t", "i", "o", "n", " ", "d", "e", "t", "a", "i", "l", "s">>}
DEBIT_PATTERNS ==
    {<<"d", "e", "b", "i", "t">>,
     <<"w", "i", "t", "h", "d", "r", "a", "w", "a", "l">>,
     <<"d", "r">>,
     <<"a", "m", "o", "u", "n", "t", " ", "w", "i", "t", "h", "d", "r", "a", "w", "n">>,
     <<"p", "a", "i", "d">>}
CREDIT_PATTERNS ==
    {<<"c", "r", "e", "d", "i", "t">>,
     <<"d", "e", "p", "o", "s", "i", "t">>,
     <<"c", "r">>,
     <<"a", "m", "o", "u", "n", "t", " ", "d", "e", "p", "o", "s", "i", "t", "e", "d">>,
     <<"r", "e", "c", "e", "i", "v", "e", "d">>}
BALANCE_PATTERNS ==
    {<<"b", "a", "l", "a", "n", "c", "e">>,
     <<"c", "l", "o", "s", "i", "n", "g", " ", "b", "a", "l", "a", "n", "c", "e">>,
     <<"a", "v", "a", "i", "l", "a", "b", "l", "e", " ", "b", "a", "l", "a", "n", "c", "e">>}
REFERENCE_PATTERNS ==
    {<<"c", "h", "q", " ", "n", "o">>,
     <<"c", "h", "e", "q", "u", "e">>,
     <<"r", "e", "f", " ", "n", "o">>,
     <<"r", "e", "f", "e", "r", "e", "n", "c", "e">>,
     <<"t", "r", "a", "n", "s", "a", "c", "t", "i", "o", "n", " ", "i", "d">>}

\* df.dropna(how='all'): rows that are empty throughout are dropped
DropEmptyRows(grid) ==
    SelectSeq(grid, LAMBDA row : \E c \in 1..Len(row) : notna(row[c]))

\* df.dropna(axis=1, how='all'): columns that are empty throughout are dropped
DropEmptyColumns(grid) ==
    IF grid = <<>> THEN grid
    ELSE
    LET keep == SelectSeq([c \in 1..Len(grid[1]) |-> c],
                          LAMBDA c : \E r \in 1..Len(grid) : notna(grid[r][c]))
    IN  [r \in 1..Len(grid) |-> [k \in 1..Len(keep) |-> grid[r][keep[k]]]]

\* ExcelToJSONConverter._load_excel on the frame pd.read_excel returns;
\* reset_index renumbers the rows, which a sequence does by itself
_load_excel(frame) == DropEmptyColumns(DropEmptyRows(frame))

\* range(min(10, len(df))) of the header scan
HeaderScanRows == 10

\* ' '.join([str(val).lower() for val in df.iloc[idx].values])
HeaderRowText(row) == Join([c \in 1..Len(row) |-> Lower(str(row[c]))])

\* the row test of the header scan
IsHeaderRow(row) ==
    ContainsAny(HeaderRowText(row),
                DATE_PATTERNS \cup DEBIT_PATTERNS \cup CREDIT_PATTERNS)

Min(a, b) == IF a < b THEN a ELSE b

\* A plausible slip: the scan does not stop after the first rows.
FindHeaderRowAnywhere(grid) ==
    LET hits == {idx \in 0..(Len(grid) - 1) : IsHeaderRow(grid[idx + 1])}
    IN  IF hits = {} THEN 0
        ELSE CHOOSE idx \in hits : \A other \in hits : idx <= other

\* the header scan of _identify_structure: the first of the scanned rows that
\* passes the test, row 0 when none does (0-based)
FindHeaderRow(grid) ==
    LET hits == {idx \in 0..(Min(HeaderScanRows, Len(grid)) - 1) :
                    IsHeaderRow(grid[idx + 1])}
    IN  IF hits = {} THEN 0
        ELSE CHOOSE idx \in hits : \A other \in hits : idx <= other

Roles == {"date", "description", "debit", "credit", "balance", "reference"}

\* the if/elif chain of _identify_structure on one header text; "" when no
\* keyword set matches
ColumnRole(header_lower) ==
    IF ContainsAny(header_lower, DATE_PATTERNS) THEN "date"
    ELSE IF ContainsAny(header_lower, DESCRIPTION_PATTERNS) THEN "description"
    ELSE IF ContainsAny(header_lower, DEBIT_PATTERNS) THEN "debit"
    ELSE IF ContainsAny(header_lower, CREDIT_PATTERNS) THEN "credit"
    ELSE IF ContainsAny(header_lower, BALANCE_PATTERNS) THEN "balance"
    ELSE IF ContainsAny(header_lower, REFERENCE_PATTERNS) THEN "reference"
    ELSE ""

RECURSIVE MapColumnsKeepingFirst(_, _, _)
\* A plausible slip: a role that has a column keeps it.
MapColumnsKeepingFirst(header_values, col_idx, column_mapping) ==
    IF col_idx >= Len(header_values) THEN column_mapping
    ELSE
    LET header_lower == Strip(Lower(str(header_values[col_idx + 1])))
        role == ColumnRole(header_lower)
    IN  MapColumnsKeepingFirst(header_values, col_idx + 1,
            IF role = "" \/ column_mapping[role] # None THEN column_mapping
            ELSE [column_mapping EXCEPT ![role] = Some(col_idx)])

RECURSIVE MapColumns(_, _, _)
\* the loop over enumerate(header_values) from col_idx (0-based) on; a
\* column_mapping is a function from the roles to None or Some(col_idx)
MapColumns(header_values, col_idx, column_mapping) ==
    IF col_idx >= Len(header_values) THEN column_mapping
    ELSE
    LET header_lower == Strip(Lower(str(header_values[col_idx + 1])))
        role == ColumnRole(header_lower)
    IN  MapColumns(header_values, col_idx + 1,
            IF role = "" THEN column_mapping
            ELSE [column_mapping EXCEPT ![role] = Some(col_idx)])

\* ExcelToJSONConverter._identify_structure on a grid with at least one row:
\* <<header_row, column_mapping>>
_identify_structure(grid) ==
    LET header_row == FindHeaderRow(grid)
    IN  <<header_row,
          MapColumns(grid[header_row + 1], 0, [role \in Roles |-> None])>>

\* \w of the regular expressions, on the characters of the model
IsWordChar(c) ==
    c \in Range(UpperLetters) \cup Range(LowerLetters) \cup Range(Digits) \cup {"_"}

\* \b in text s between position i and i + 1 (i in 0..Len(s))
WordBoundary(s, i) ==
    (i >= 1 /\ IsWordChar(s[i])) # (i < Len(s) /\ IsWordChar(s[i + 1]))

\* the bounds of \d{10,16}
AccountDigitsMin == 10
AccountDigitsMax == 16

\* the <<start, length>> pairs at which \b\d{10,16}\b matches in s
AccountMatches(s) ==
    {m \in (1..Len(s)) \X (AccountDigitsMin..AccountDigitsMax) :
        /\ m[1] + m[2] - 1 <= Len(s)
        /\ \A k \in m[1]..(m[1] + m[2] - 1) : s[k] \in Range(Digits)
        /\ WordBoundary(s, m[1] - 1)
        /\ WordBoundary(s, m[1] + m[2] - 1)}

\* re.search(r'\b\d{10,16}\b', row_text): the leftmost match, or None
SearchAccount(s) ==
    IF AccountMatches(s) = {} THEN None
    ELSE LET m == CHOOSE m \in AccountMatches(s) :
                      \A o \in AccountMatches(s) : m[1] <= o[1]
         IN  Some(SubSeq(s, m[1], m[1] + m[2] - 1))

\* the lengths of [A-Z]{4} and [A-Z0-9]{6}
IfscLetters == 4
IfscTail == 6

\* the starts at which \b[A-Z]{4}0[A-Z0-9]{6}\b matches in s
IfscMatches(s) ==
    {i \in 1..Len(s) :
        /\ i + IfscLetters + IfscTail <= Len(s)
        /\ \A k \in i..(i + IfscLetters - 1) : s[k] \in Range(UpperLetters)
        /\ s[i + IfscLetters] = "0"
        /\ \A k \in (i + IfscLetters + 1)..(i + IfscLetters + IfscTail) :
              s[k] \in Range(UpperLetters) \cup Range(Digits)
        /\ WordBoundary(s, i - 1)
        /\ WordBoundary(s, i + IfscLetters + IfscTail)}

\* re.search(r'\b[A-Z]{4}0[A-Z0-9]{6}\b', row_text)
SearchIfsc(s) ==
    IF IfscMatches(s) = {} THEN None
    ELSE LET i == CHOOSE i \in IfscMatches(s) : \A o \in IfscMatches(s) : i <= o
         IN  Some(SubSeq(s, i, i + IfscLetters + IfscTail))

\* bank_keywords, in list order
bank_keywords ==
    << <<"H", "D", "F", "C">>, <<"I", "C", "I", "C", "I">>, <<"S", "B", "I">>,
       <<"A", "X", "I", "S">>, <<"K", "O", "T", "A", "K">>,
       <<"Y", "E", "S", " ", "B", "A", "N", "K">>, <<"P", "N", "B">>,
       <<"B", "O", "B">>, <<"B", "A", "N", "K", " ", "O", "F">> >>

\* the first bank keyword found in row_text.upper(), or None
SearchBank(s) ==
    LET found == {k \in 1..Len(bank_keywords) : Contains(Upper(s), bank_keywords[k])}
    IN  IF found = {} THEN None
        ELSE Some(bank_keywords[CHOOSE k \in found : \A o \in found : k <= o])

\* the metadata dict _extract_metadata starts from
EmptyMetadata ==
    [bank_name |-> None, account_number |-> None, account_holder_name |-> None,
     branch_name |-> None, ifsc_code |-> None,
     currency |-> Some(<<"I", "N", "R">>)]

\* ' '.join([str(val) for val in df.iloc[idx].values if pd.notna(val)])
MetadataRowText(row) ==
    LET present == SelectSeq(row, notna)
    IN  Join([c \in 1..Len(present) |-> str(present[c])])

RECURSIVE WalkMetadataOverwriting(_, _, _, _)
\* A plausible slip: a later row with an account number overwrites the one
\* found before.
WalkMetadataOverwriting(grid, idx, header_row, metadata) ==
    IF idx >= header_row THEN metadata
    ELSE
    LET row_text == CHOOSE t \in {MetadataRowText(grid[idx + 1])} : TRUE
        acc_match == SearchAccount(row_text)
        ifsc_match == SearchIfsc(row_text)
        bank == SearchBank(row_text)
        m1 == IF acc_match # None
              THEN [metadata EXCEPT !.account_number = acc_match]
              ELSE metadata
        m2 == IF ifsc_match # None THEN [m1 EXCEPT !.ifsc_code = ifsc_match] ELSE m1
        m3 == IF bank # None THEN [m2 EXCEPT !.bank_name = bank] ELSE m2
    IN  WalkMetadataOverwriting(grid, idx + 1, header_row, m3)

RECURSIVE WalkMetadata(_, _, _, _)
\* the loop of _extract_metadata over range(header_row) from idx on
WalkMetadata(grid, idx, header_row, metadata) ==
    IF idx >= header_row THEN metadata
    ELSE
    LET row_text == CHOOSE t \in {MetadataRowText(grid[idx + 1])} : TRUE
        acc_match == SearchAccount(row_text)
        ifsc_match == SearchIfsc(row_text)
        bank == SearchBank(row_text)
        m1 == IF acc_match # None /\ metadata.account_number = None
              THEN [metadata EXCEPT !.account_number = acc_match]
              ELSE metadata
        m2 == IF ifsc_match # None THEN [m1 EXCEPT !.ifsc_code = ifsc_match] ELSE m1
        m3 == IF bank # None THEN [m2 EXCEPT !.bank_name = bank] ELSE m2
    IN  WalkMetadata(grid, idx + 1, header_row, m3)

\* ExcelToJSONConverter._extract_metadata
_extract_metadata(grid, header_row) ==
    WalkMetadata(grid, 0, header_row, EmptyMetadata)

\* the keywords that make _parse_date reject a text as header text
HeaderLikeKeywords ==
    {<<"d", "a", "t", "e">>, <<"t", "r", "a", "n">>, <<"t", "x", "n">>,
     <<"t", "r", "a", "n", "s", "a", "c", "t", "i", "o", "n">>}

\* ExcelToJSONConverter._parse_date: None, or the day whose '%Y-%m-%d' text
\* is returned.  The parsers of lines 313-339 are represented by the cell's
\* date; no number of the model's grids stands in a date column.
converter_parse_date(date_value) ==
    IF isna(date_value) THEN None
    ELSE IF date_value.kind = "date" THEN date_value.date
    ELSE IF ContainsAny(Lower(Strip(str(date_value))), HeaderLikeKeywords) THEN None
    ELSE date_value.date

\* the value of a digit character
DigitValue(c) == CHOOSE k \in 0..9 : Digits[k + 1] = c

RECURSIVE NatOf(_)
\* the number a sequence of digits writes, 0 for the empty sequence
NatOf(ds) ==
    CHOOSE n \in {IF d = <<>> THEN 0
                  ELSE NatOf(SubSeq(d, 1, Len(d) - 1)) * 10 + DigitValue(d[Len(d)]) :
                  d \in {ds}} : TRUE

\* float(s), in half-cents, for the literals of the model's grids: an
\* optional sign, digits, and at most one point followed by at most three
\* decimals of which the third is 0 or 5; None where float() raises ValueError
ParseFloatOf(s) ==
    LET signed == s # <<>> /\ Head(s) \in {"-", "+"}
        body == IF signed THEN Tail(s) ELSE s
        points == {i \in 1..Len(body) : body[i] = "."}
        point == IF points = {} THEN Len(body) + 1 ELSE CHOOSE i \in points : TRUE
        whole == SubSeq(body, 1, point - 1)
        decimals == SubSeq(body, point + 1, Len(body))
        thousandths == NatOf(SubSeq(decimals \o <<"0", "0", "0">>, 1, 3))
        magnitude == NatOf(whole) * 200 + thousandths \div 5
    IN  IF \/ Cardinality(points) > 1
           \/ \E i \in 1..Len(body) : body[i] \notin Range(Digits) \cup {"."}
           \/ Len(whole) + Len(decimals) = 0
        THEN None
        ELSE Some(IF signed /\ Head(s) = "-" THEN -magnitude ELSE magnitude)

\* float(s) with s evaluated once
ParseFloat(text) ==
    CHOOSE r \in {ParseFloatOf(t) : t \in {text}} : TRUE

\* the cleaning of _parse_amount: separators and currency markers removed,
\* surrounding blanks trimmed, a parenthesis turned into a minus sign
CleanAmount(text) ==
    LET amount_str ==
            Strip(Replace(Replace(Replace(Replace(text, <<",">>, <<>>),
                                          <<"₹">>, <<>>),
                                  <<"R", "s">>, <<>>),
                          <<"I", "N", "R">>, <<>>))
    IN  IF Contains(amount_str, <<"(">>)
        THEN Replace(Replace(amount_str, <<"(">>, <<"-">>), <<")">>, <<>>)
        ELSE amount_str

\* ExcelToJSONConverter._parse_amount, in half-cents
_parse_amount(amount_value) ==
    IF isna(amount_value) THEN 0
    ELSE IF amount_value.kind = "num" THEN amount_value.num
    ELSE CHOOSE v \in {IF amount_str = <<>> \/ ParseFloat(amount_str) = None
                        THEN 0 ELSE Val(ParseFloat(amount_str)) :
                        amount_str \in {CleanAmount(str(amount_value))}} : TRUE

\* A plausible slip: a zero credit also counts as a credit.
transaction_type_nonnegative(credit) ==
    IF credit >= 0 THEN "credit" ELSE "debit"

\* "credit" if credit > 0 else "debit"
transaction_type(credit) ==
    IF credit > 0 THEN "credit" ELSE "debit"

\* the state of the row walk of _extract_transactions before its first row
NoRows ==
    [transactions |-> <<>>, skipped_count |-> 0,
     skipped_reasons |-> [empty_row |-> 0, no_date |-> 0, parse_fail |-> 0]]

\* A plausible slip: a skipped row is tallied under its reason, and the
\* skipped count is left as it was.
SkippedUncounted(walk, reason) ==
    [walk EXCEPT !.skipped_reasons[reason] = @ + 1]

\* one more row skipped for the given reason
Skipped(walk, reason) ==
    [walk EXCEPT !.skipped_count = @ + 1, !.skipped_reasons[reason] = @ + 1]

\* A plausible slip: the skip of a row without a date is missing, and the row
\* is emitted with a null date.
ExtractRowKeepingUndated(row, column_mapping, walk) ==
    LET date_col == IF column_mapping["date"] = None THEN 0
                    ELSE Val(column_mapping["date"])
        date_value == row[date_col + 1]
        parsed_date == converter_parse_date(date_value)
        cell(role) == row[Val(column_mapping[role]) + 1]
        description ==
            IF column_mapping["description"] # None /\ notna(cell("description"))
            THEN str(cell("description")) ELSE <<>>
        debit == IF column_mapping["debit"] # None
                 THEN _parse_amount(cell("debit")) ELSE 0
        credit == IF column_mapping["credit"] # None
                  THEN _parse_amount(cell("credit")) ELSE 0
        balance == IF column_mapping["balance"] # None
                   THEN _parse_amount(cell("balance")) ELSE 0
        reference ==
            IF column_mapping["reference"] # None /\ notna(cell("reference"))
            THEN Some(str(cell("reference"))) ELSE None
    IN  IF \A c \in 1..Len(row) : isna(row[c]) THEN Skipped(walk, "empty_row")
        ELSE IF notna(date_value) /\ parsed_date = None
        THEN Skipped(walk, "parse_fail")
        ELSE [walk EXCEPT !.transactions = Append(@,
                 [date |-> parsed_date,
                  description |-> Some(Strip(description)),
                  debit |-> Some(debit),
                  credit |-> Some(credit),
                  balance |-> Some(balance),
                  transaction_type |-> transaction_type(credit),
                  reference_number |-> reference])]

\* A plausible slip: the transaction is put in front of those emitted so far.
ExtractRowPrepending(row, column_mapping, walk) ==
    LET date_col == IF column_mapping["date"] = None THEN 0
                    ELSE Val(column_mapping["date"])
        date_value == row[date_col + 1]
        parsed_date == converter_parse_date(date_value)
        cell(role) == row[Val(column_mapping[role]) + 1]
        description ==
            IF column_mapping["description"] # None /\ notna(cell("description"))
            THEN str(cell("description")) ELSE <<>>
        debit == IF column_mapping["debit"] # None
                 THEN _parse_amount(cell("debit")) ELSE 0
        credit == IF column_mapping["credit"] # None
                  THEN _parse_amount(cell("credit")) ELSE 0
        balance == IF column_mapping["balance"] # None
                   THEN _parse_amount(cell("balance")) ELSE 0
        reference ==
            IF column_mapping["reference"] # None /\ notna(cell("reference"))
            THEN Some(str(cell("reference"))) ELSE None
    IN  IF \A c \in 1..Len(row) : isna(row[c]) THEN Skipped(walk, "empty_row")
        ELSE IF isna(date_value) THEN Skipped(walk, "no_date")
        ELSE IF parsed_date = None THEN Skipped(walk, "parse_fail")
        ELSE [walk EXCEPT !.transactions = <<
                 [date |-> parsed_date,
                  description |-> Some(Strip(description)),
                  debit |-> Some(debit),
                  credit |-> Some(credit),
                  balance |-> Some(balance),
                  transaction_type |-> transaction_type(credit),
                  reference_number |-> reference]>> \o @]

\* the body of the for loop of _extract_transactions on one row.  The emitted
\* date is the day whose '%Y-%m-%d' text the transaction carries.
ExtractRow(row, column_mapping, walk) ==
    LET date_col == IF column_mapping["date"] = None THEN 0
                    ELSE Val(column_mapping["date"])
        date_value == row[date_col + 1]
        parsed_date == converter_parse_date(date_value)
        cell(role) == row[Val(column_mapping[role]) + 1]
        description ==
            IF column_mapping["description"] # None /\ notna(cell("description"))
            THEN str(cell("description")) ELSE <<>>
        debit == IF column_mapping["debit"] # None
                 THEN _parse_amount(cell("debit")) ELSE 0
        credit == IF column_mapping["credit"] # None
                  THEN _parse_amount(cell("credit")) ELSE 0
        balance == IF column_mapping["balance"] # None
                   THEN _parse_amount(cell("balance")) ELSE 0
        reference ==
            IF column_mapping["reference"] # None /\ notna(cell("reference"))
            THEN Some(str(cell("reference"))) ELSE None
    IN  IF \A c \in 1..Len(row) : isna(row[c]) THEN Skipped(walk, "empty_row")
        ELSE IF isna(date_value) THEN Skipped(walk, "no_date")
        ELSE IF parsed_date = None THEN Skipped(walk, "parse_fail")
        ELSE [walk EXCEPT !.transactions = Append(@,
                 [date |-> parsed_date,
                  description |-> Some(Strip(description)),
                  debit |-> Some(debit),
                  credit |-> Some(credit),
                  balance |-> Some(balance),
                  transaction_type |-> transaction_type(credit),
                  reference_number |-> reference])]

\* the fields of the summary that round() is applied to
RoundedFields ==
    {"opening_balance", "closing_balance", "total_credits", "total_debits"}

\* round(x, 2) of a float: a value in whole cents is kept; a value ending in
\* half a cent goes to the cent above or below it, according to the side on
\* which the binary float nearest to it lies (up)
round2(v, up) ==
    IF v % 2 = 0 THEN v ELSE IF up THEN v + 1 ELSE v - 1

\* sum(t[f] for t in transactions) for f "credit" or "debit"
SumOf(transactions, f) ==
    SumSeq([i \in 1..Len(transactions) |->
               IF f = "credit" THEN Val(transactions[i].credit)
                               ELSE Val(transactions[i].debit)])

\* A plausible slip: the closing balance is computed from the opening
\* balance and the totals instead of read from the last row.
_calculate_summary_computed_closing(transactions, up) ==
    IF transactions = <<>>
    THEN [statement_period_from |-> None, statement_period_to |-> None,
          opening_balance |-> Some(0), closing_balance |-> Some(0),
          total_credits |-> Some(0), total_debits |-> Some(0)]
    ELSE
    LET opening_balance == Val(transactions[1].balance)
                           - Val(transactions[1].credit)
                           + Val(transactions[1].debit)
    IN
    [statement_period_from |-> transactions[1].date,
     statement_period_to |-> transactions[Len(transactions)].date,
     opening_balance |-> Some(round2(opening_balance, up["opening_balance"])),
     closing_balance |->
         Some(round2(opening_balance + SumOf(transactions, "credit")
                                     - SumOf(transactions, "debit"),
                     up["closing_balance"])),
     total_credits |->
         Some(round2(SumOf(transactions, "credit"), up["total_credits"])),
     total_debits |->
         Some(round2(SumOf(transactions, "debit"), up["total_debits"]))]

\* A plausible slip: the closing balance is read from the first row
\* (transactions[0]) instead of the last one.
_calculate_summary_first_closing(transactions, up) ==
    IF transactions = <<>>
    THEN [statement_period_from |-> None, statement_period_to |-> None,
          opening_balance |-> Some(0), closing_balance |-> Some(0),
          total_credits |-> Some(0), total_debits |-> Some(0)]
    ELSE
    LET opening_balance == Val(transactions[1].balance)
                           - Val(transactions[1].credit)
                           + Val(transactions[1].debit)
    IN
    [statement_period_from |-> transactions[1].date,
     statement_period_to |-> transactions[Len(transactions)].date,
     opening_balance |-> Some(round2(opening_balance, up["opening_balance"])),
     closing_balance |->
         Some(round2(Val(transactions[1].balance), up["closing_balance"])),
     total_credits |->
         Some(round2(SumOf(transactions, "credit"), up["total_credits"])),
     total_debits |->
         Some(round2(SumOf(transactions, "debit"), up["total_debits"]))]

\* a summary whose period is the earliest and the latest transaction date
_calculate_summary_sorted(transactions, up) ==
    IF transactions = <<>>
    THEN [statement_period_from |-> None, statement_period_to |-> None,
          opening_balance |-> Some(0), closing_balance |-> Some(0),
          total_credits |-> Some(0), total_debits |-> Some(0)]
    ELSE
    LET opening_balance == Val(transactions[1].balance)
                           - Val(transactions[1].credit)
                           + Val(transactions[1].debit)
        closing_balance == Val(transactions[Len(transactions)].balance)
        dates == {Val(transactions[i].date) : i \in 1..Len(transactions)}
    IN
    [statement_period_from |->
         Some(CHOOSE a \in dates : \A b \in dates : a <= b),
     statement_period_to |->
         Some(CHOOSE a \in dates : \A b \in dates : a >= b),
     opening_balance |-> Some(round2(opening_balance, up["opening_balance"])),
     closing_balance |-> Some(round2(closing_balance, up["closing_balance"])),
     total_credits |->
         Some(round2(SumOf(transactions, "credit"), up["total_credits"])),
     total_debits |->
         Some(round2(SumOf(transactions, "debit"), up["total_debits"]))]

\* ExcelToJSONConverter._calculate_summary; every emitted transaction has a
\* date, so dates holds the dates of all of them
_calculate_summary(transactions, up) ==
    IF transactions = <<>>
    THEN [statement_period_from |-> None, statement_period_to |-> None,
          opening_balance |-> Some(0), closing_balance |-> Some(0),
          total_credits |-> Some(0), total_debits |-> Some(0)]
    ELSE
    LET opening_balance == Val(transactions[1].balance)
                           - Val(transactions[1].credit)
                           + Val(transactions[1].debit)
        closing_balance == Val(transactions[Len(transactions)].balance)
    IN
    [statement_period_from |-> transactions[1].date,
     statement_period_to |-> transactions[Len(transactions)].date,
     opening_balance |-> Some(round2(opening_balance, up["opening_balance"])),
     closing_balance |-> Some(round2(closing_balance, up["closing_balance"])),
     total_credits |->
         Some(round2(SumOf(transactions, "credit"), up["total_credits"])),
     total_debits |->
         Some(round2(SumOf(transactions, "debit"), up["total_debits"]))]

\* the "data" dict convert assembles: {**metadata, **summary, transactions,
\* number_of_transactions}
StatementRecord(metadata, summary, transactions) ==
    [bank_name |-> metadata.bank_name,
     account_number |-> metadata.account_number,
     account_holder_name |-> metadata.account_holder_name,
     branch_name |-> metadata.branch_name,
     ifsc_code |-> metadata.ifsc_code,
     currency |-> metadata.currency,
     statement_period_from |-> summary.statement_period_from,
     statement_period_to |-> summary.statement_period_to,
     opening_balance |-> summary.opening_balance,
     closing_balance |-> summary.closing_balance,
     total_credits |-> summary.total_credits,
     total_debits |-> summary.total_debits,
     transactions |-> transactions,
     number_of_transactions |-> Len(transactions)]

\* the converter before convert is called
IdleConverter ==
    [df |-> <<>>, header_row |-> 0,
     column_mapping |-> [role \in Roles |-> None],
     metadata |-> EmptyMetadata, idx |-> 0, walk |-> NoRows, out |-> None]

\* no convert call has been made; Python's round sends a tie of the binary
\* float one way or the other, and which way is fixed by the value rounded
NoCalls ==
    [half_up |-> [field \in RoundedFields |-> TRUE], returned |-> <<>>]

\* df.iloc[header_row + 1:]
transactions_df(c) == SubSeq(c.df, c.header_row + 2, Len(c.df))

\* convert, steps 1 to 3: the sheet is loaded and cleaned, the header row and
\* the columns are identified and the metadata read.  A frame without rows
\* makes df.iloc[header_row] raise, and convert returns success False.
ConvertIdentify ==
    /\ pc = "file"
    /\ LET loaded == _load_excel(sheet)
       IN  IF loaded = <<>>
           THEN /\ conv' = [conv EXCEPT !.out = Some([success |-> FALSE])]
                /\ pc' = "failed"
           ELSE LET structure == _identify_structure(loaded)
                IN  /\ conv' = [conv EXCEPT
                                  !.df = loaded,
                                  !.header_row = structure[1],
                                  !.column_mapping = structure[2],
                                  !.metadata = _extract_metadata(loaded, structure[1])]
                    /\ pc' = "rows"
    /\ UNCHANGED <<singletons, statements, calls, workers, modelVars, runVars, evVars, sheet>>

\* convert, step 4: one pass of the for loop of _extract_transactions
ExtractTransactionRow ==
    /\ pc = "rows"
    /\ conv.idx < Len(transactions_df(conv))
    /\ conv' = [conv EXCEPT
                  !.idx = @ + 1,
                  !.walk = ExtractRow(transactions_df(conv)[conv.idx + 1],
                                      conv.column_mapping, conv.walk)]
    /\ UNCHANGED <<singletons, statements, calls, workers, modelVars, runVars, evVars, sheet, pc>>

\* convert, steps 5 and 6: the summary is calculated and the result built;
\* its data is the statement the validators are then given
ConvertReturn ==
    /\ pc = "rows"
    /\ conv.idx = Len(transactions_df(conv))
    /\ \E up \in [RoundedFields -> BOOLEAN] :
          LET transactions == conv.walk.transactions
              data == StatementRecord(conv.metadata,
                                      _calculate_summary(transactions, up),
                                      transactions)
          IN  /\ conv' = [conv EXCEPT !.out =
                            Some([success |-> TRUE, data |-> data,
                                  metadata |-> [total_rows |-> Len(conv.df),
                                                header_row |-> conv.header_row]])]
              /\ statement_data' = data
    /\ pc' = "ready"
    /\ UNCHANGED <<singletons, statements, calls, workers, modelVars, today, result, evVars, sheet>>

(***************************************************************************)
(* Specification SpecModels: ValidationResult objects of one statement are *)
(* created, receive add_error / add_warning calls in any order, and are    *)
(* then aggregated.                                                        *)
(***************************************************************************)

MaxIssues == 3

ValidatorNames == {"balance_validator", "date_sequencing_validator"}

\* values of ValidationSeverity that callers pass to add_error
Severities == {"error", "warning"}

NoStatement ==
    [statement_period_from |-> None, statement_period_to |-> None,
     opening_balance |-> None, closing_balance |-> None,
     total_credits |-> None, total_debits |-> None,
     transactions |-> <<>>, number_of_transactions |-> 0]

Names(rs) == {rs[i].validator_name : i \in 1..Len(rs)}

InitModels ==
    /\ results = <<>>
    /\ aggregated = <<>>
    /\ statement_data = NoStatement
    /\ today = 0
    /\ result = <<>>
    /\ issues = <<>>
    /\ validation = <<>>
    /\ sheet = <<>>
    /\ conv = IdleConverter
    /\ workers = <<>>
    /\ calls = NoCalls
    /\ statements = <<>>
    /\ singletons = NoSingletons
    /\ pc = "collect"

\* a validator starts its run: result = ValidationResult(status="passed", passed=True)
NewResult(name) ==
    /\ pc = "collect"
    /\ name \notin Names(results)
    /\ results' = Append(results, ValidationResult(name))
    /\ UNCHANGED <<singletons, statements, calls, workers, aggregated, runVars, evVars, convVars, pc>>

AddError(i, severity) ==
    /\ pc = "collect"
    /\ i \in 1..Len(results)
    /\ error_count(results[i]) + warning_count(results[i]) < MaxIssues
    /\ results' = [results EXCEPT ![i] =
           add_error(@, ValidationError("calculation_error", severity, "Validation failed", "", -1))]
    /\ UNCHANGED <<singletons, statements, calls, workers, aggregated, runVars, evVars, convVars, pc>>

AddWarning(i) ==
    /\ pc = "collect"
    /\ i \in 1..Len(results)
    /\ error_count(results[i]) + warning_count(results[i]) < MaxIssues
    /\ results' = [results EXCEPT ![i] =
           add_warning(@, ValidationWarning("possible_duplicate", "", <<>>))]
    /\ UNCHANGED <<singletons, statements, calls, workers, aggregated, runVars, evVars, convVars, pc>>

FromResults ==
    /\ pc = "collect"
    /\ aggregated' = <<from_results("stmt", results)>>
    /\ pc' = "aggregated"
    /\ UNCHANGED <<singletons, statements, calls, workers, results, runVars, evVars, convVars>>

NextModels ==
    \/ \E name \in ValidatorNames : NewResult(name)
    \/ \E i \in 1..Len(results), severity \in Severities : AddError(i, severity)
    \/ \E i \in 1..Len(results) : AddWarning(i)
    \/ FromResults

SpecModels == InitModels /\ [][NextModels]_vars

\* The status the specification derives from the issues a result holds.
DerivedStatus(r) ==
    IF error_count(r) > 0 THEN "failed"
    ELSE IF warning_count(r) > 0 THEN "warnings"
    ELSE "passed"

\* C2: after any sequence of add_error / add_warning calls on a result that
\* started as 'passed', status is 'failed' with at least one error,
\* 'warnings' with no error and at least one warning, 'passed' otherwise,
\* whatever the order of the calls.
C2_StatusDerivedFromIssues ==
    \A i \in 1..Len(results) : results[i].status = DerivedStatus(results[i])

\* C3: from_results yields overall_status 'failed' if any contained result
\* has an error, else 'warnings' if any has a warning, else 'passed'; the
\* totals are the sums of the per-result counts; validators_run lists the
\* validator names in the order given.
C3_AggregateFromResults ==
    pc = "aggregated" =>
        LET a == aggregated[1]
            rs == results
            anyError == \E i \in 1..Len(rs) : Len(rs[i].errors) >= 1
            anyWarning == \E i \in 1..Len(rs) : Len(rs[i].warnings) >= 1
        IN  /\ a.overall_status = (IF anyError THEN "failed"
                                   ELSE IF anyWarning THEN "warnings"
                                   ELSE "passed")
            /\ a.total_errors = SumSeq([i \in 1..Len(rs) |-> Len(rs[i].errors)])
            /\ a.total_warnings = SumSeq([i \in 1..Len(rs) |-> Len(rs[i].warnings)])
            /\ Len(a.validators_run) = Len(rs)
            /\ \A i \in 1..Len(rs) : a.validators_run[i] = rs[i].validator_name

\* Two results were aggregated, one holding a warning recorded before an
\* error and one holding warnings only.
C3_Witness ==
    /\ pc = "aggregated"
    /\ Len(results) = 2
    /\ results[1].validator_name = "date_sequencing_validator"
    /\ Len(results[1].errors) = 1 /\ Len(results[1].warnings) = 1
    /\ results[1].status = "warnings"
    /\ Len(results[2].errors) = 0 /\ Len(results[2].warnings) = 2
    /\ aggregated[1].overall_status = "failed"

(***************************************************************************)
(* Specification SpecBalance: a statement record, drawn from a bounded set *)
(* of records, is handed to BalanceValidator.validate_statement.           *)
(***************************************************************************)

MaxTxns == 3

\* sequences over S of length at most n
SeqsUpTo(S, n) == UNION {[1..k -> S] : k \in 0..n}

\* 10.00, 10.005 (quantised to 10.01), or absent
OpeningInputs == {None, Some(2000), Some(2001)}
\* 10.00, 12.00, or absent
ClosingInputs == {None, Some(2000), Some(2400)}
\* <<total_credits, total_debits>>
TotalsInputs == {<<Some(0), Some(0)>>, <<Some(400), Some(0)>>,
                 <<Some(400), Some(400)>>, <<None, Some(0)>>}
\* <<debit, credit>> of a transaction: 2.00 or nothing
AmountInputs == {<<400, 0>>, <<0, 400>>, <<0, 0>>}
\* stated balance of a transaction
StatedInputs == {None, Some(1600), Some(2000), Some(2400)}

\* the last two have a null credit and a null description
BalanceTransactions ==
    {Transaction(Some(1), Some(<<"A", "T", "M">>), Some(a[1]), Some(a[2]), b) :
        a \in AmountInputs, b \in StatedInputs}
    \cup {Transaction(Some(1), Some(<<"A", "T", "M">>), Some(0), None, Some(2000)),
          Transaction(Some(1), None, Some(0), Some(400), Some(2000))}

Statement(period_from, period_to, opening, closing, totals, transactions) ==
    [statement_period_from |-> period_from, statement_period_to |-> period_to,
     opening_balance |-> opening, closing_balance |-> closing,
     total_credits |-> totals[1], total_debits |-> totals[2],
     transactions |-> transactions,
     number_of_transactions |-> Len(transactions)]

InitBalance ==
    /\ results = <<>>
    /\ aggregated = <<>>
    /\ \E o \in OpeningInputs, c \in ClosingInputs, t \in TotalsInputs,
          txs \in SeqsUpTo(BalanceTransactions, MaxTxns) :
          statement_data = Statement(Some(1), Some(2), o, c, t, txs)
    /\ today = 0
    /\ result = <<>>
    /\ issues = <<>>
    /\ validation = <<>>
    /\ sheet = <<>>
    /\ conv = IdleConverter
    /\ workers = <<>>
    /\ calls = NoCalls
    /\ statements = <<>>
    /\ singletons = NoSingletons
    /\ pc = "ready"

\* result = balance_validator.validate_statement(statement_data)
BalanceValidateStatement ==
    /\ pc = "ready"
    /\ IF BalanceValidatorRaises(statement_data)
       THEN /\ pc' = "raised"
            /\ result' = <<>>
       ELSE /\ pc' = "done"
            /\ result' = <<validate_statement(statement_data)>>
    /\ UNCHANGED <<singletons, statements, calls, workers, modelVars, statement_data, today, evVars, convVars>>

NextBalance == BalanceValidateStatement \/ ExtractionValidate

SpecBalance == InitBalance /\ [][NextBalance]_vars

\* the errors of r recorded for the given field
ErrorsAt(r, field) == {i \in 1..Len(r.errors) : r.errors[i].field = field}

\* indices (0-based) of the transactions for which r holds a progression error
ProgressionErrorIndices(r) ==
    {r.errors[i].index : i \in ErrorsAt(r, "transactions[idx].balance")}

Present4(sd) ==
    /\ sd.opening_balance # None /\ sd.closing_balance # None
    /\ sd.total_credits # None /\ sd.total_debits # None

\* |closing - (opening + total_credits - total_debits)| <= tolerance, on the
\* amounts at two decimals
Reconciles(sd) ==
    Abs(quantize(Val(sd.closing_balance))
        - (quantize(Val(sd.opening_balance)) + quantize(Val(sd.total_credits))
           - quantize(Val(sd.total_debits)))) <= tolerance

\* C1 as stated: for every statement whose opening and closing balance are
\* present, validate_statement returns zero errors if and only if
\* |closing - (opening + total_credits - total_debits)| <= tolerance.
C1_Original ==
    (pc = "done" /\ Present4(statement_data)) =>
        (error_count(result[1]) = 0 <=> Reconciles(statement_data))

\* C1 as amended: the opening/closing reconciliation check of
\* validate_statement adds no error if and only if the amounts reconcile
\* within the tolerance, and a result with zero errors implies that they do
\* (the progression and totals checks add errors of their own).
C1_ReconciliationCheck ==
    (pc = "done" /\ Present4(statement_data)) =>
        /\ (ErrorsAt(result[1], "closing_balance") = {}
              <=> Reconciles(statement_data))
        /\ ErrorsAt(result[1], "opening_balance/closing_balance") = {}
        /\ (error_count(result[1]) = 0 => Reconciles(statement_data))

\* A statement that differs from its expected closing balance by exactly the
\* tolerance was validated: the reconciliation check added a warning and no
\* error, while the totals check reported an error.
C1_Witness ==
    /\ pc = "done"
    /\ Present4(statement_data)
    /\ Abs(quantize(Val(statement_data.closing_balance))
           - (quantize(Val(statement_data.opening_balance))
              + quantize(Val(statement_data.total_credits))
              - quantize(Val(statement_data.total_debits)))) = tolerance
    /\ ErrorsAt(result[1], "closing_balance") = {}
    /\ ErrorsAt(result[1], "total_credits") # {}
    /\ \E i \in 1..Len(result[1].warnings) :
          result[1].warnings[i].warning_type = "minor_balance_difference"

\* every amount the progression check reads is present
AllStated(sd) ==
    /\ sd.opening_balance # None
    /\ \A i \in 1..Len(sd.transactions) :
          /\ sd.transactions[i].balance # None
          /\ sd.transactions[i].debit # None
          /\ sd.transactions[i].credit # None

\* the stated balance that precedes transaction idx (0-based): the opening
\* balance for the first transaction
PrecedingStated(sd, idx) ==
    IF idx = 0 THEN quantize(Val(sd.opening_balance))
    ELSE quantize(Val(sd.transactions[idx].balance))

\* transaction idx (0-based) states a balance that diverges by more than the
\* tolerance from the one expected after the preceding stated balance
Diverges(sd, idx) ==
    LET t == sd.transactions[idx + 1]
        credit == quantize(Val(t.credit))
        debit == quantize(Val(t.debit))
        expected == IF credit > 0 THEN PrecedingStated(sd, idx) + credit
                    ELSE PrecedingStated(sd, idx) - debit
    IN  Abs(quantize(Val(t.balance)) - expected) > tolerance

\* C4: in the progression check the running balance after a diverging
\* transaction is that transaction's stated balance, so the progression
\* errors are exactly the transactions that diverge from the preceding
\* stated balance; a sequence in which only transaction k does yields
\* exactly one progression error, at index k.
C4_ResynchronisesToStated ==
    (pc = "done" /\ AllStated(statement_data)) =>
        LET sd == statement_data
            n == Len(sd.transactions)
            r == result[1]
        IN  /\ ProgressionErrorIndices(r) = {i \in 0..(n - 1) : Diverges(sd, i)}
            /\ \A k \in 0..(n - 1) :
                  (\A j \in 0..(n - 1) : Diverges(sd, j) <=> j = k)
                  => /\ ProgressionErrorIndices(r) = {k}
                     /\ Cardinality(ErrorsAt(r, "transactions[idx].balance")) = 1

(***************************************************************************)
(* Specification SpecDate: a statement record, drawn from a bounded set of *)
(* records, is handed to DateSequencingValidator.validate_statement or to  *)
(* ExtractionValidator.validate.                                           *)
(***************************************************************************)

\* dates of the transactions: three consecutive days, a day more than
\* max_gap_days later, and a string that does not parse
TransactionDateInputs == {Some(Unparsable), Some(1), Some(2), Some(3), Some(100)}
DescriptionInputs == {<<"A", "T", "M">>, <<" ", "a", "t", "m", " ">>, <<"P", "a", "y">>}
PeriodFromInputs == {None, Some(1), Some(2)}
\* day 200 is after today and more than LongPeriodDays after the start
PeriodToInputs == {Some(Unparsable), Some(1), Some(3), Some(200)}
TodayInputs == {50}

\* the last one has a date that does not parse and a null description
DateTransactions ==
    {Transaction(dt, Some(desc), Some(0), Some(0), Some(0)) :
        dt \in TransactionDateInputs, desc \in DescriptionInputs}
    \cup {Transaction(Some(Unparsable), None, Some(0), Some(0), Some(0))}

InitDate ==
    /\ results = <<>>
    /\ aggregated = <<>>
    /\ \E f \in PeriodFromInputs, t \in PeriodToInputs,
          txs \in SeqsUpTo(DateTransactions, MaxTxns) :
          statement_data =
              Statement(f, t, Some(0), Some(0), <<Some(0), Some(0)>>, txs)
    /\ today \in TodayInputs
    /\ result = <<>>
    /\ issues = <<>>
    /\ validation = <<>>
    /\ sheet = <<>>
    /\ conv = IdleConverter
    /\ workers = <<>>
    /\ calls = NoCalls
    /\ statements = <<>>
    /\ singletons = NoSingletons
    /\ pc = "ready"

\* result = date_validator.validate_statement(statement_data)
DateValidateStatement ==
    /\ pc = "ready"
    /\ IF DateValidatorRaises(statement_data)
       THEN /\ pc' = "raised"
            /\ result' = <<>>
       ELSE /\ pc' = "done"
            /\ result' = <<date_validate_statement(statement_data, today)>>
    /\ UNCHANGED <<singletons, statements, calls, workers, modelVars, statement_data, today, evVars, convVars>>

NextDate == DateValidateStatement \/ ExtractionValidate

SpecDate == InitDate /\ [][NextDate]_vars

\* the errors of r recorded with the given message
ErrorsSaying(r, message) ==
    {i \in 1..Len(r.errors) : r.errors[i].message = message}

\* the dates of the transactions, in sequence order, when all of them parse
AllDatesParse(sd) ==
    \A i \in 1..Len(sd.transactions) : _parse_date(sd.transactions[i].date) # None

DateOf(sd, i) == Val(sd.transactions[i].date)

StrictlyIncreasing(sd) ==
    /\ AllDatesParse(sd)
    /\ \A i \in 1..(Len(sd.transactions) - 1) : DateOf(sd, i) < DateOf(sd, i + 1)

PeriodPresent(sd) ==
    /\ _parse_date(sd.statement_period_from) # None
    /\ _parse_date(sd.statement_period_to) # None

AllInsidePeriod(sd) ==
    /\ PeriodPresent(sd)
    /\ \A i \in 1..Len(sd.transactions) :
          /\ Val(sd.statement_period_from) <= DateOf(sd, i)
          /\ DateOf(sd, i) <= Val(sd.statement_period_to)

\* C6 as stated: strictly increasing transaction dates, all within
\* [statement_period_from, statement_period_to], give zero errors; this
\* includes a single-transaction statement whose period is that one day.
C6_Original ==
    (/\ pc = "done"
     /\ Len(statement_data.transactions) >= 1
     /\ StrictlyIncreasing(statement_data)
     /\ AllInsidePeriod(statement_data))
    => error_count(result[1]) = 0

\* C6 as amended: strictly increasing transaction dates, all within
\* [statement_period_from, statement_period_to], give zero errors when
\* statement_period_from < statement_period_to; when the period is a single
\* day the only error is the period check's "Statement period invalid".
C6_IncreasingInsidePeriod ==
    (/\ pc = "done"
     /\ StrictlyIncreasing(statement_data)
     /\ AllInsidePeriod(statement_data))
    => LET sd == statement_data
           r == result[1]
       IN  IF Val(sd.statement_period_from) < Val(sd.statement_period_to)
           THEN error_count(r) = 0
           ELSE /\ error_count(r) = 1
                /\ ErrorsSaying(r, "Statement period invalid") = {1}

\* Three transactions on increasing days inside a longer period were
\* validated without error.
C6_Witness ==
    /\ pc = "done"
    /\ Len(statement_data.transactions) = 3
    /\ StrictlyIncreasing(statement_data)
    /\ AllInsidePeriod(statement_data)
    /\ Val(statement_data.statement_period_from) < Val(statement_data.statement_period_to)
    /\ error_count(result[1]) = 0

\* the transactions of sd with those at positions i and j (1-based) exchanged
Exchanged(sd, i, j) ==
    [sd EXCEPT !.transactions =
        [k \in 1..Len(sd.transactions) |->
            IF k = i THEN sd.transactions[j]
            ELSE IF k = j THEN sd.transactions[i]
            ELSE sd.transactions[k]]]

\* sd is a sequence with strictly increasing dates in which the transactions
\* at positions i < j have been exchanged
IsExchange(sd, i, j) ==
    /\ 1 <= i /\ i < j /\ j <= Len(sd.transactions)
    /\ StrictlyIncreasing(Exchanged(sd, i, j))

\* the out-of-order issues of the result the run ended with
OutOfOrderCount ==
    IF pc = "done"
    THEN Cardinality(ErrorsSaying(result[1], "Date out of order"))
    ELSE Cardinality({k \in 1..Len(validation[1].issues) :
            /\ validation[1].issues[k].issue_type = "date_chronology_error"
            /\ validation[1].issues[k].index >= 0})

\* C7 as stated: exchanging any two transactions, adjacent or not, of a
\* sequence with strictly increasing dates makes the chronological-order
\* check report exactly one out-of-order issue.
C7_Original ==
    pc \in {"done", "validated"} =>
        \A i, j \in 1..Len(statement_data.transactions) :
            IsExchange(statement_data, i, j) => OutOfOrderCount = 1

\* C7 as amended: exchanging two adjacent transactions of a sequence with
\* strictly increasing dates gives exactly one out-of-order issue, and
\* exchanging two transactions that are not adjacent gives exactly two (one
\* after each of the two exchanged positions).
C7_ExchangeOutOfOrder ==
    pc \in {"done", "validated"} =>
        \A i, j \in 1..Len(statement_data.transactions) :
            IsExchange(statement_data, i, j)
            => OutOfOrderCount = (IF j = i + 1 THEN 1 ELSE 2)

\* The first and the last of three transactions were exchanged and the date
\* validator reported two out-of-order errors.
C7_Witness ==
    /\ pc = "done"
    /\ Len(statement_data.transactions) = 3
    /\ IsExchange(statement_data, 1, 3)
    /\ OutOfOrderCount = 2

\* the possible_duplicate warnings of r
DuplicateWarnings(r) ==
    {k \in 1..Len(r.warnings) : r.warnings[k].warning_type = "possible_duplicate"}

\* transactions i and j (1-based) share the date and the trimmed,
\* lower-cased description
SameDateAndDescription(sd, i, j) ==
    /\ _parse_date(sd.transactions[i].date) # None
    /\ _parse_date(sd.transactions[j].date) # None
    /\ DateOf(sd, i) = DateOf(sd, j)
    /\ strip_lower(Val(sd.transactions[i].description))
         = strip_lower(Val(sd.transactions[j].description))

\* the indices (0-based) a warning lists, as a set
IndexSet(w) == {w.indices[k] : k \in 1..Len(w.indices)}

\* C8: every group of two or more transactions sharing date and trimmed,
\* lower-cased description gets exactly one possible_duplicate warning whose
\* indices are exactly the group's, no warning covers transactions that
\* differ in date or description, and the duplicate check adds no error, so
\* the status is 'warnings' when no other check reports an error.
C8_DuplicateWarnings ==
    pc = "done" =>
        LET sd == statement_data
            r == result[1]
            n == Len(sd.transactions)
            group(i) == {j \in 1..n : SameDateAndDescription(sd, i, j)}
        IN  /\ \A i \in 1..n :
                  Cardinality(group(i)) >= 2
                  => /\ Cardinality({k \in DuplicateWarnings(r) :
                                        (i - 1) \in IndexSet(r.warnings[k])}) = 1
                     /\ \A k \in DuplicateWarnings(r) :
                           (i - 1) \in IndexSet(r.warnings[k])
                           => /\ IndexSet(r.warnings[k]) = {j - 1 : j \in group(i)}
                              /\ Len(r.warnings[k].indices) = Cardinality(group(i))
            /\ \A k \in DuplicateWarnings(r) :
                  /\ Len(r.warnings[k].indices) >= 2
                  /\ \A a, b \in IndexSet(r.warnings[k]) :
                        SameDateAndDescription(sd, a + 1, b + 1)
            /\ r.errors = date_checks_1_to_3(sd, today).errors
            /\ (DuplicateWarnings(r) # {} /\ error_count(r) = 0)
                  => r.status = "warnings"

\* "ATM" and " atm " on the same day were reported as one possible duplicate
\* listing both indices, next to a transaction with another description, and
\* the result has status 'warnings'.
C8_Witness ==
    /\ pc = "done"
    /\ Len(statement_data.transactions) = 3
    /\ Val(statement_data.transactions[1].description) = <<"A", "T", "M">>
    /\ Val(statement_data.transactions[2].description) = <<"P", "a", "y">>
    /\ Val(statement_data.transactions[3].description) = <<" ", "a", "t", "m", " ">>
    /\ Cardinality(DuplicateWarnings(result[1])) = 1
    /\ \E k \in DuplicateWarnings(result[1]) : result[1].warnings[k].indices = <<0, 2>>
    /\ error_count(result[1]) = 0
    /\ result[1].status = "warnings"

(***************************************************************************)
(* Specification SpecExtract: a sheet, drawn from a bounded set of sheets, *)
(* is converted by ExcelToJSONConverter.convert, and the statement it      *)
(* yields is handed to BalanceValidator.validate_statement or to           *)
(* ExtractionValidator.validate.                                           *)
(***************************************************************************)

MaxRows == 3

\* header rows: two the header scan recognises, with all five columns
HeaderInputs ==
    {<<Text(<<"D", "a", "t", "e">>, None), Text(<<"N", "a", "r", "r", "a", "t", "i", "o", "n">>, None), Text(<<"D", "e", "b", "i", "t">>, None),
       Text(<<"C", "r", "e", "d", "i", "t">>, None), Text(<<"B", "a", "l", "a", "n", "c", "e">>, None)>>,
     <<Text(<<"T", "x", "n", " ", "D", "a", "t", "e">>, None), Text(<<"P", "a", "r", "t", "i", "c", "u", "l", "a", "r", "s">>, None),
       Text(<<"W", "i", "t", "h", "d", "r", "a", "w", "a", "l">>, None), Text(<<"D", "e", "p", "o", "s", "i", "t">>, None),
       Text(<<"C", "l", "o", "s", "i", "n", "g", " ", "B", "a", "l", "a", "n", "c", "e">>, None)>>}

\* a row above the header naming the bank and the account
MetadataRow ==
    <<Text(<<"H", "D", "F", "C", " ", "B", "a", "n", "k">>, None), Text(<<"A", "/", "c", " ", "1", "2", "3", "4", "5", "6", "7", "8", "9", "0", "1">>, None), NaN, NaN, NaN>>

ATM == Text(<<"A", "T", "M">>, None)

\* rows below the header: date, description, debit, credit, balance
RowInputs ==
    {\* 2.00 credited, balance 12.00
     <<Timestamp(1), ATM, Num(0), Num(400), Num(2400)>>,
     \* 2.00 debited, balance 10.00
     <<Timestamp(2), ATM, Num(400), Num(0), Num(2000)>>,
     \* 2.00 debited, balance 8.00
     <<Timestamp(2), ATM, Num(400), Num(0), Num(1600)>>,
     \* 2.00 credited, balance 12.00, a day later
     <<Timestamp(3), ATM, Num(0), Num(400), Num(2400)>>,
     \* the same in text: "03-01-2024", "Rs 2.00", "12.00"
     <<Text(<<"0", "3", "-", "0", "1", "-", "2", "0", "2", "4">>, Some(3)), ATM, NaN, Text(<<"R", "s", " ", "2", ".", "0", "0">>, None), Text(<<"1", "2", ".", "0", "0">>, None)>>,
     \* a credit of "(2.00)", balance 8.00
     <<Timestamp(3), ATM, NaN, Text(<<"(", "2", ".", "0", "0", ")">>, None), Num(1600)>>,
     \* half a cent credited, balance 10.005
     <<Timestamp(3), ATM, Num(0), Num(1), Num(2001)>>,
     \* no date
     <<NaN, ATM, Num(400), Num(0), Num(2000)>>,
     \* 2.00 debited, the credit and the balance cell empty
     <<Timestamp(2), ATM, Num(400), NaN, NaN>>,
     \* a total line
     <<Text(<<"T", "o", "t", "a", "l">>, None), NaN, Num(400), Num(400), NaN>>,
     \* the header repeated
     <<Text(<<"D", "a", "t", "e">>, None), Text(<<"N", "a", "r", "r", "a", "t", "i", "o", "n">>, None), Text(<<"D", "e", "b", "i", "t">>, None),
       Text(<<"C", "r", "e", "d", "i", "t">>, None), Text(<<"B", "a", "l", "a", "n", "c", "e">>, None)>>,
     \* an empty row
     <<NaN, NaN, NaN, NaN, NaN>>}

\* the sheets: rows alone, or rows under a header, or under metadata and header
SheetInputs ==
    {above \o rows :
        above \in {<<>>} \cup {<<h>> : h \in HeaderInputs}
                  \cup {<<MetadataRow, h>> : h \in HeaderInputs},
        rows \in SeqsUpTo(RowInputs, MaxRows)}

InitExtract ==
    /\ results = <<>>
    /\ aggregated = <<>>
    /\ statement_data = NoStatement
    /\ today \in TodayInputs
    /\ result = <<>>
    /\ issues = <<>>
    /\ validation = <<>>
    /\ sheet \in SheetInputs
    /\ conv = IdleConverter
    /\ workers = <<>>
    /\ calls = NoCalls
    /\ statements = <<>>
    /\ singletons = NoSingletons
    /\ pc = "file"

NextExtract ==
    \/ ConvertIdentify
    \/ ExtractTransactionRow
    \/ ConvertReturn
    \/ BalanceValidateStatement
    \/ ExtractionValidate

SpecExtract == InitExtract /\ [][NextExtract]_vars

\* C10: every transaction the extractor has emitted has transaction_type
\* 'credit' if and only if its credit amount is greater than 0, and 'debit'
\* otherwise.
C10_TransactionType ==
    \A i \in 1..Len(conv.walk.transactions) :
        LET t == conv.walk.transactions[i]
        IN  /\ t.transaction_type \in {"credit", "debit"}
            /\ t.transaction_type = "credit" <=> Val(t.credit) > 0

\* a conversion has emitted a credit, a debit with credit 0, and a
\* transaction with a negative credit, which is a 'debit'
C10_Witness ==
    /\ pc = "ready"
    /\ \E i, j, k \in 1..Len(conv.walk.transactions) :
          LET t == conv.walk.transactions
          IN  /\ t[i].transaction_type = "credit" /\ Val(t[i].credit) > 0
              /\ t[j].transaction_type = "debit" /\ Val(t[j].credit) = 0
              /\ t[k].transaction_type = "debit" /\ Val(t[k].credit) < 0

\* the header scan recognised the header row and every one of the date,
\* description, debit, credit and balance columns has its role, and every
\* row below the header was emitted as a transaction
RecognisedGrid ==
    /\ IsHeaderRow(conv.df[conv.header_row + 1])
    /\ \A role \in Roles \ {"reference"} : conv.column_mapping[role] # None
    /\ Len(conv.walk.transactions) = Len(transactions_df(conv))

\* row i (1-based, i >= 2) states the balance of row i - 1 plus its credit
\* minus its debit
RowConsistent(t, i) ==
    Val(t[i].balance) = Val(t[i - 1].balance) + Val(t[i].credit) - Val(t[i].debit)

\* one of the two amounts of row i is zero
OneAmountZero(t, i) == Val(t[i].debit) = 0 \/ Val(t[i].credit) = 0

\* the amounts of row i are whole cents
WholeCents(t, i) ==
    /\ Val(t[i].debit) % 2 = 0
    /\ Val(t[i].credit) % 2 = 0
    /\ Val(t[i].balance) % 2 = 0

\* the amounts of row i are not negative
NonNegative(t, i) == Val(t[i].debit) >= 0 /\ Val(t[i].credit) >= 0

\* C9: for a grid with a recognised header row and rows in which each stated
\* balance is the previous balance plus credit minus debit, one of the two
\* amounts being zero, the extractor yields total_credits = sum of credits,
\* total_debits = sum of debits, closing_balance = the last row's balance,
\* opening_balance = first balance - first credit + first debit, and
\* BalanceValidator reports zero errors on the extracted statement.  Stated
\* here for amounts in whole cents, where round() changes nothing.
C9_ConsistentGridRoundTrip ==
    LET t == statement_data.transactions
        n == Len(t)
    IN  (/\ pc = "done"
         /\ conv.out # None
         /\ RecognisedGrid
         /\ n >= 1
         /\ \A i \in 1..n : OneAmountZero(t, i) /\ WholeCents(t, i)
         /\ \A i \in 2..n : RowConsistent(t, i))
        => /\ statement_data.total_credits = Some(SumOf(t, "credit"))
           /\ statement_data.total_debits = Some(SumOf(t, "debit"))
           /\ statement_data.closing_balance = t[n].balance
           /\ statement_data.opening_balance
                = Some(Val(t[1].balance) - Val(t[1].credit) + Val(t[1].debit))
           /\ error_count(result[1]) = 0

\* the errors of the opening/closing reconciliation check in a result
ReconciliationErrors(r) == ErrorsSaying(r, "Closing balance mismatch")

\* the last row of a recognised grid of two or more rows states a balance
\* that differs by more than the tolerance from the one its predecessor's
\* balance and its own amounts give, every other row being consistent
LastBalanceChanged(t) ==
    /\ RecognisedGrid
    /\ Len(t) >= 2
    /\ \A i \in 1..Len(t) : OneAmountZero(t, i)
    /\ \A i \in 2..(Len(t) - 1) : RowConsistent(t, i)
    /\ Abs(Val(t[Len(t)].balance)
           - (Val(t[Len(t) - 1].balance) + Val(t[Len(t)].credit)
                                         - Val(t[Len(t)].debit))) > tolerance

\* C5 as stated: after the last row's balance was changed, the balance
\* validator reports exactly one transaction-progression error, at that
\* row's index, and the opening/closing reconciliation check reports no
\* error.
C5_Original ==
    LET t == statement_data.transactions
    IN  (/\ pc = "done"
         /\ conv.out # None
         /\ LastBalanceChanged(t)
         /\ \A i \in 1..Len(t) : WholeCents(t, i) /\ NonNegative(t, i))
        => /\ ProgressionErrorIndices(result[1]) = {Len(t) - 1}
           /\ Cardinality(ErrorsAt(result[1], "transactions[idx].balance")) = 1
           /\ ReconciliationErrors(result[1]) = {}

\* C5, amended: for a recognised grid of two or more rows with non-negative
\* whole-cent amounts whose rows are otherwise balance-consistent, changing
\* the stated balance of the last row by more than the tolerance makes the
\* balance validator report exactly one transaction-progression error, at
\* that row's index, and also exactly one opening/closing reconciliation
\* error, because the extracted closing balance is that changed balance.
C5_LastBalanceChanged ==
    LET t == statement_data.transactions
    IN  (/\ pc = "done"
         /\ conv.out # None
         /\ LastBalanceChanged(t)
         /\ \A i \in 1..Len(t) : WholeCents(t, i) /\ NonNegative(t, i))
        => /\ ProgressionErrorIndices(result[1]) = {Len(t) - 1}
           /\ Cardinality(ErrorsAt(result[1], "transactions[idx].balance")) = 1
           /\ Cardinality(ReconciliationErrors(result[1])) = 1

\* the two-row grid of the scenario was converted and validated: the second
\* row's balance is off, and the result has one progression error at
\* index 1 and a reconciliation error
C5_Witness ==
    /\ pc = "done"
    /\ conv.out # None
    /\ Len(statement_data.transactions) = 2
    /\ LastBalanceChanged(statement_data.transactions)
    /\ \A i \in 1..2 : /\ WholeCents(statement_data.transactions, i)
                       /\ NonNegative(statement_data.transactions, i)
    /\ ProgressionErrorIndices(result[1]) = {1}
    /\ Cardinality(ReconciliationErrors(result[1])) = 1

\* for amounts that are not negative the round trip of C9 holds
ConsistentNonNegativeGridRoundTrip ==
    LET t == statement_data.transactions
        n == Len(t)
    IN  (/\ pc = "done"
         /\ conv.out # None
         /\ RecognisedGrid
         /\ n >= 1
         /\ \A i \in 1..n : OneAmountZero(t, i) /\ WholeCents(t, i) /\ NonNegative(t, i)
         /\ \A i \in 2..n : RowConsistent(t, i))
        => /\ statement_data.total_credits = Some(SumOf(t, "credit"))
           /\ statement_data.total_debits = Some(SumOf(t, "debit"))
           /\ statement_data.closing_balance = t[n].balance
           /\ statement_data.opening_balance
                = Some(Val(t[1].balance) - Val(t[1].credit) + Val(t[1].debit))
           /\ error_count(result[1]) = 0

\* a consistent grid of three rows was converted and validated without error
ConsistentGridValidated ==
    /\ pc = "done"
    /\ conv.out # None
    /\ RecognisedGrid
    /\ Len(statement_data.transactions) = 3
    /\ \A i \in 2..3 : RowConsistent(statement_data.transactions, i)
    /\ error_count(result[1]) = 0

\* C11: every transaction the extractor has emitted has debit >= 0 and
\* credit >= 0, whatever the debit and credit cells hold.
C11_AmountsNonNegative ==
    \A i \in 1..Len(conv.walk.transactions) :
        /\ Val(conv.walk.transactions[i].debit) >= 0
        /\ Val(conv.walk.transactions[i].credit) >= 0

\* C12: BalanceValidator.validate_statement and
\* DateSequencingValidator.validate_statement return a ValidationResult and
\* never raise, also for records with a null field.
C12_ValidatorsNeverRaise ==
    /\ pc # "raised"
    /\ pc = "done" => Len(result) = 1

\* the sheet holds at least one cell that is not empty
NonEmptyGrid == \E r \in 1..Len(sheet) : \E c \in 1..Len(sheet[r]) : notna(sheet[r][c])

\* convert has returned a result
Converted == pc \in {"ready", "done", "raised", "validated"}

\* the date cell of a row below the header is not empty and parses
HasValidDate(row) ==
    LET date_col == IF conv.column_mapping["date"] = None THEN 0
                    ELSE Val(conv.column_mapping["date"])
    IN  converter_parse_date(row[date_col + 1]) # None

\* the rows below the header that have a valid date, in row order
ValidRows == SelectSeq(transactions_df(conv), HasValidDate)

\* C13: for a non-empty grid conversion succeeds; a row whose date cell is
\* empty or unparsable is dropped without aborting the walk, the rows with a
\* valid date still being emitted, one transaction each in row order; when
\* every row is dropped the result is a success with an empty transaction
\* list, number_of_transactions 0, zero balances and totals and null period
\* dates.
C13_MalformedRowsDropped ==
    /\ (NonEmptyGrid /\ pc # "file") => pc # "failed"
    /\ Converted =>
          LET t == conv.walk.transactions
              data == Val(conv.out).data
          IN  /\ Val(conv.out).success
              /\ conv.idx = Len(transactions_df(conv))
              /\ data = statement_data
              /\ data.transactions = t
              /\ Len(t) = Len(ValidRows)
              /\ \A i \in 1..Len(t) :
                    t[i] = ExtractRow(ValidRows[i], conv.column_mapping,
                                      NoRows).transactions[1]
              /\ conv.walk.skipped_count = Len(transactions_df(conv)) - Len(t)
              /\ ValidRows = <<>> =>
                    /\ data.transactions = <<>>
                    /\ data.number_of_transactions = 0
                    /\ data.opening_balance = Some(0)
                    /\ data.closing_balance = Some(0)
                    /\ data.total_credits = Some(0)
                    /\ data.total_debits = Some(0)
                    /\ data.statement_period_from = None
                    /\ data.statement_period_to = None

\* a conversion returned after its walk dropped a row without a date and a
\* row whose date does not parse and emitted the row that came after them
C13_Witness ==
    /\ Converted
    /\ Len(transactions_df(conv)) = 3
    /\ ~HasValidDate(transactions_df(conv)[1])
    /\ ~HasValidDate(transactions_df(conv)[2])
    /\ HasValidDate(transactions_df(conv)[3])
    /\ conv.walk.skipped_reasons["no_date"] = 1
    /\ conv.walk.skipped_reasons["parse_fail"] = 1
    /\ Len(statement_data.transactions) = 1
    /\ Val(conv.out).success

(***************************************************************************)
(* Specification SpecConcurrent: several threads call validate on the      *)
(* process-wide ExtractionValidator of get_validator(), each with its own  *)
(* statement; the steps of the calls interleave.  issues is the list       *)
(* self.issues is bound to.  A returned result holds that list itself      *)
(* (issues=self.issues): it is shared until a later call binds self.issues *)
(* to a new list.                                                          *)
(***************************************************************************)

NumWorkers == 2

\* a statement with one transaction of 2.00 credited: reconciled and dated,
\* or varied in one respect
ConcurrentStatement(opening, closing, date) ==
    Statement(Some(1), Some(3), opening, closing, <<Some(400), Some(0)>>,
              <<Transaction(date, Some(<<"A", "T", "M">>), Some(0), Some(400), closing)>>)

StatementInputs ==
    {\* no issue
     ConcurrentStatement(Some(2000), Some(2400), Some(2)),
     \* no opening balance: errors
     ConcurrentStatement(None, Some(2400), Some(2)),
     \* a transaction date that does not parse: a warning
     ConcurrentStatement(Some(2000), Some(2400), Some(Unparsable)),
     \* closing balance 2.00 too high: an error
     ConcurrentStatement(Some(2000), Some(2800), Some(2))}

\* the issues a returned result shows: the list it holds is the one
\* self.issues is bound to, or one that was replaced since
ResultIssues(w) == IF w.shared THEN issues ELSE w.result.issues

InitConcurrent ==
    /\ results = <<>>
    /\ aggregated = <<>>
    /\ statement_data = NoStatement
    /\ today \in TodayInputs
    /\ result = <<>>
    /\ issues = <<>>
    /\ validation = <<>>
    /\ sheet = <<>>
    /\ conv = IdleConverter
    /\ workers \in [1..NumWorkers ->
                      {[pc |-> "called", data |-> sd, shared |-> FALSE,
                        result |-> [is_valid |-> TRUE, validation_level |-> "",
                                    issues |-> <<>>]] : sd \in StatementInputs}]
    /\ calls = NoCalls
    /\ statements = <<>>
    /\ singletons = NoSingletons
    /\ pc = "concurrent"

\* self.issues = []: every result that holds the list replaced keeps it
WorkerReset(k) ==
    /\ pc = "concurrent"
    /\ workers[k].pc = "called"
    /\ issues' = <<>>
    /\ workers' = [j \in 1..NumWorkers |->
                     IF j = k THEN [workers[j] EXCEPT !.pc = "completeness"]
                     ELSE IF workers[j].shared
                     THEN [workers[j] EXCEPT !.shared = FALSE,
                                             !.result.issues = issues]
                     ELSE workers[j]]
    /\ UNCHANGED <<singletons, statements, calls, modelVars, runVars, validation, convVars, pc>>

\* completeness = self._validate_completeness(data)
WorkerCompleteness(k) ==
    /\ pc = "concurrent"
    /\ workers[k].pc = "completeness"
    /\ issues' = _validate_completeness(workers[k].data, issues)
    /\ workers' = [workers EXCEPT ![k].pc = "balance"]
    /\ UNCHANGED <<singletons, statements, calls, modelVars, runVars, validation, convVars, pc>>

\* balance = self._validate_balance_reconciliation(data)
WorkerBalance(k) ==
    /\ pc = "concurrent"
    /\ workers[k].pc = "balance"
    /\ issues' = _validate_balance_reconciliation(workers[k].data, issues)
    /\ workers' = [workers EXCEPT ![k].pc = "dates"]
    /\ UNCHANGED <<singletons, statements, calls, modelVars, runVars, validation, convVars, pc>>

\* dates = self._validate_dates(data)
WorkerDates(k) ==
    /\ pc = "concurrent"
    /\ workers[k].pc = "dates"
    /\ issues' = _validate_dates(workers[k].data, today, issues)
    /\ workers' = [workers EXCEPT ![k].pc = "level"]
    /\ UNCHANGED <<singletons, statements, calls, modelVars, runVars, validation, convVars, pc>>

\* the level is determined from self.issues and the result returned
WorkerReturn(k) ==
    /\ pc = "concurrent"
    /\ workers[k].pc = "level"
    /\ LET has_errors == \E i \in 1..Len(issues) : issues[i].severity = "ERROR"
           has_warnings == \E i \in 1..Len(issues) : issues[i].severity = "WARNING"
       IN  workers' = [workers EXCEPT
                         ![k].pc = "returned",
                         ![k].shared = TRUE,
                         ![k].result =
                             [is_valid |-> ~has_errors,
                              validation_level |->
                                  IF has_errors THEN "CRITICAL_ERRORS"
                                  ELSE IF has_warnings THEN "WARNINGS"
                                  ELSE "PASSED",
                              issues |-> issues]]
    /\ UNCHANGED <<singletons, statements, calls, modelVars, runVars, evVars, convVars, pc>>

NextConcurrent ==
    \E k \in 1..NumWorkers :
        \/ WorkerReset(k)
        \/ WorkerCompleteness(k)
        \/ WorkerBalance(k)
        \/ WorkerDates(k)
        \/ WorkerReturn(k)

SpecConcurrent == InitConcurrent /\ [][NextConcurrent]_vars

\* C14: a result returned by a validation that ran concurrently with
\* validations of other statements on the process-wide validator holds exactly the issues of its own
\* statement, and its validation level and is_valid are those the issues of
\* its own statement give.
C14_ResultsIsolated ==
    \A k \in DOMAIN workers :
        (/\ workers[k].pc = "returned"
         /\ \A j \in DOMAIN workers : j # k => workers[j].data # workers[k].data)
        =>  LET own == validate(workers[k].data, today)
            IN  /\ ResultIssues(workers[k]) = own.issues
                /\ workers[k].result.validation_level = own.validation_level
                /\ workers[k].result.is_valid = own.is_valid

(***************************************************************************)
(* Specification SpecRepeat: convert is called again and again, on the     *)
(* instance get_converter() hands out or on one constructed by the caller, *)
(* each time on one of a few sheets.                                       *)
(***************************************************************************)

NumConverters == 2
MaxCalls == 3

RECURSIVE ExtractRows(_, _, _)
\* the for loop of ExcelToJSONConverter._extract_transactions
ExtractRows(rows, column_mapping, walk) ==
    IF rows = <<>> THEN walk
    ELSE ExtractRows(Tail(rows), column_mapping,
                     ExtractRow(Head(rows), column_mapping, walk))

\* a convert that lets the instance it runs on show in the count it reports
convert_per_instance(self, frame, up) ==
    LET loaded == _load_excel(frame)
    IN  IF loaded = <<>> THEN [success |-> FALSE]
        ELSE
        LET structure == _identify_structure(loaded)
            below == transactions_df([df |-> loaded, header_row |-> structure[1]])
            transactions == ExtractRows(below, structure[2], NoRows).transactions
            data == StatementRecord(_extract_metadata(loaded, structure[1]),
                                    _calculate_summary(transactions, up),
                                    transactions)
        IN  [success |-> TRUE,
             data |-> [data EXCEPT !.number_of_transactions = @ + self - 1],
             metadata |-> [total_rows |-> Len(loaded),
                           header_row |-> structure[1]]]

\* ExcelToJSONConverter.convert called on instance self: no attribute of the
\* instance is read or written
convert(self, frame, up) ==
    LET loaded == _load_excel(frame)
    IN  IF loaded = <<>> THEN [success |-> FALSE]
        ELSE
        LET structure == _identify_structure(loaded)
            below == transactions_df([df |-> loaded, header_row |-> structure[1]])
            transactions == ExtractRows(below, structure[2], NoRows).transactions
            data == StatementRecord(_extract_metadata(loaded, structure[1]),
                                    _calculate_summary(transactions, up),
                                    transactions)
        IN  [success |-> TRUE, data |-> data,
             metadata |-> [total_rows |-> Len(loaded),
                           header_row |-> structure[1]]]

\* the rows of the sheets converted repeatedly
RepeatedRows ==
    {\* 2.00 credited, then half a cent credited
     <<<<Timestamp(1), ATM, Num(0), Num(400), Num(2400)>>,
       <<Timestamp(3), ATM, Num(0), Num(1), Num(2001)>>>>,
     \* a row in text, then a row without a date
     <<<<Text(<<"0", "3", "-", "0", "1", "-", "2", "0", "2", "4">>, Some(3)), ATM, NaN, Text(<<"R", "s", " ", "2", ".", "0", "0">>, None), Text(<<"1", "2", ".", "0", "0">>, None)>>,
       <<NaN, ATM, Num(400), Num(0), Num(2000)>>>>}

GridInputs == {<<h>> \o rows : h \in HeaderInputs, rows \in RepeatedRows}

InitRepeat ==
    /\ results = <<>>
    /\ aggregated = <<>>
    /\ statement_data = NoStatement
    /\ today = 0
    /\ result = <<>>
    /\ issues = <<>>
    /\ validation = <<>>
    /\ sheet = <<>>
    /\ conv = IdleConverter
    /\ workers = <<>>
    /\ calls \in {[half_up |-> up, returned |-> <<>>] :
                     up \in [RoundedFields -> BOOLEAN]}
    /\ statements = <<>>
    /\ singletons = NoSingletons
    /\ pc = "converter"

\* one more call of convert, on instance self, runs and returns
Convert(self) ==
    /\ pc = "converter"
    /\ Len(calls.returned) < MaxCalls
    /\ \E grid \in GridInputs :
          calls' = [calls EXCEPT !.returned =
                      Append(@, [self |-> self, grid |-> grid,
                                 out |-> convert(self, grid, calls.half_up)])]
    /\ UNCHANGED <<singletons, statements, modelVars, runVars, evVars, convVars, workers, pc>>

NextRepeat == \E self \in 1..NumConverters : Convert(self)

SpecRepeat == InitRepeat /\ [][NextRepeat]_vars

Rounded(v) == {round2(v, TRUE), round2(v, FALSE)}

\* the summary of an empty transaction sequence: no period, zero amounts
EmptySummary(data) ==
    /\ data.statement_period_from = None
    /\ data.statement_period_to = None
    /\ data.opening_balance = Some(0)
    /\ data.closing_balance = Some(0)
    /\ data.total_credits = Some(0)
    /\ data.total_debits = Some(0)

\* C16 as stated: the summary of a converted statement has the dates of the
\* first and the last transaction as its period, the sums of the credits and
\* of the debits as its totals, the last balance as closing balance and
\* first.balance - first.credit + first.debit as opening balance; for the
\* empty sequence the dates are null and the amounts zero.
C16_Original ==
    Converted =>
        LET t == statement_data.transactions
        IN  IF t = <<>> THEN EmptySummary(statement_data)
            ELSE /\ statement_data.statement_period_from = t[1].date
                 /\ statement_data.statement_period_to = t[Len(t)].date
                 /\ statement_data.total_credits = Some(SumOf(t, "credit"))
                 /\ statement_data.total_debits = Some(SumOf(t, "debit"))
                 /\ statement_data.closing_balance = t[Len(t)].balance
                 /\ statement_data.opening_balance =
                        Some(Val(t[1].balance) - Val(t[1].credit)
                                               + Val(t[1].debit))

\* C16, amended: the period is the dates of the first and the last
\* transaction in sequence order, and each of the four amounts is the value
\* the claim names rounded to two decimals (the sum of the credits, the sum
\* of the debits, the last balance, first.balance - first.credit +
\* first.debit), hence that value itself when it is a whole number of cents;
\* for the empty sequence the dates are null and the amounts zero.
C16_SummaryRounded ==
    Converted =>
        LET t == statement_data.transactions
        IN  IF t = <<>> THEN EmptySummary(statement_data)
            ELSE /\ statement_data.statement_period_from = t[1].date
                 /\ statement_data.statement_period_to = t[Len(t)].date
                 /\ Val(statement_data.total_credits)
                        \in Rounded(SumOf(t, "credit"))
                 /\ Val(statement_data.total_debits)
                        \in Rounded(SumOf(t, "debit"))
                 /\ Val(statement_data.closing_balance)
                        \in Rounded(Val(t[Len(t)].balance))
                 /\ Val(statement_data.opening_balance)
                        \in Rounded(Val(t[1].balance) - Val(t[1].credit)
                                                      + Val(t[1].debit))

\* a statement was converted whose first transaction is dated after its
\* last one and whose credits sum to a value that is not a whole number of
\* cents: the period runs backwards and the total is the rounded sum
C16_Witness ==
    /\ Converted
    /\ Len(statement_data.transactions) >= 2
    /\ Val(statement_data.statement_period_from)
           > Val(statement_data.statement_period_to)
    /\ statement_data.total_credits
           # Some(SumOf(statement_data.transactions, "credit"))

\* C17: the transactions emitted so far come, in the same relative order,
\* from distinct rows strictly below the header row, one transaction per
\* row, and the assembled statement holds that sequence and reports its
\* length as number_of_transactions.
C17_OrderPreserved ==
    (pc = "rows" \/ Converted) =>
        LET t == conv.walk.transactions
            walked == (conv.header_row + 2)..(conv.header_row + 1 + conv.idx)
        IN  /\ \E emitted \in {[r \in walked |->
                                  ExtractRow(conv.df[r], conv.column_mapping,
                                             NoRows).transactions]} :
                  \E src \in [1..Len(t) -> walked] :
                      /\ \A i, j \in 1..Len(t) : i < j => src[i] < src[j]
                      /\ \A i \in 1..Len(t) : emitted[src[i]] = <<t[i]>>
            /\ Converted =>
                  /\ statement_data.transactions = t
                  /\ statement_data.number_of_transactions = Len(t)

\* a sheet with a row above the header was converted: two different
\* transactions were emitted and a row between or around them was dropped
C17_Witness ==
    /\ Converted
    /\ conv.header_row > 0
    /\ Len(statement_data.transactions) = 2
    /\ statement_data.transactions[1] # statement_data.transactions[2]
    /\ Len(transactions_df(conv)) = 3
    /\ statement_data.number_of_transactions = 2

\* the cell of row that column_mapping gives the role, or NaN when the sheet
\* has no column of that role
CellOf(row, role) ==
    IF conv.column_mapping[role] = None THEN NaN
    ELSE row[Val(conv.column_mapping[role]) + 1]

\* C18: in every transaction of a converted statement, an empty debit or
\* credit cell has given the amount 0.0 and an empty balance cell has given
\* a null balance; when the sheet has no balance column the balance of
\* every transaction is null.
C18_EmptyCells ==
    Converted =>
        \A i \in 1..Len(statement_data.transactions) :
            LET t == statement_data.transactions[i]
                row == ValidRows[i]
            IN  /\ isna(CellOf(row, "debit")) => t.debit = Some(0)
                /\ isna(CellOf(row, "credit")) => t.credit = Some(0)
                /\ isna(CellOf(row, "balance")) => t.balance = None

(***************************************************************************)
(* Specification SpecAmount: a sheet of one row is converted whose credit  *)
(* and balance cells hold an amount written in one of many ways.           *)
(***************************************************************************)

\* digits with thousands separators, and the number they write
WholeInputs ==
    {[chars |-> <<"1", ",", "2", "5", "0">>, value |-> 1250],
     [chars |-> <<"1", "2", ",", "0", "0", "0">>, value |-> 12000],
     [chars |-> <<"2">>, value |-> 2]}

\* decimals, and the half-cents they write
DecimalInputs ==
    {[chars |-> <<>>, value |-> 0],
     [chars |-> <<".", "5", "0">>, value |-> 100],
     [chars |-> <<".", "0", "5">>, value |-> 10]}

\* currency markers in front of the number
MarkerInputs ==
    {<<>>, <<"₹">>, <<"R", "s">>, <<"R", "s", " ">>, <<"I", "N", "R", " ">>}

\* the amounts in text, each with the value (in half-cents) it writes
AmountTexts ==
    {[chars |-> IF parenthesised
                THEN <<"(">> \o marker \o whole.chars \o decimals.chars \o <<")">>
                ELSE marker \o whole.chars \o decimals.chars,
      value |-> IF parenthesised
                THEN -(whole.value * 200 + decimals.value)
                ELSE whole.value * 200 + decimals.value] :
        parenthesised \in BOOLEAN, marker \in MarkerInputs,
        whole \in WholeInputs, decimals \in DecimalInputs}

\* numeric cells
AmountNumbers == {Num(0), Num(1), Num(400), Num(250100), Num(-400)}

AmountCells == {Text(a.chars, None) : a \in AmountTexts} \cup AmountNumbers

AmountHeader ==
    CHOOSE h \in HeaderInputs : h[1].chars = <<"D", "a", "t", "e">>

InitAmount ==
    /\ results = <<>>
    /\ aggregated = <<>>
    /\ statement_data = NoStatement
    /\ today \in TodayInputs
    /\ result = <<>>
    /\ issues = <<>>
    /\ validation = <<>>
    /\ sheet \in {<<AmountHeader, <<Timestamp(1), ATM, NaN, cell, cell>>>> :
                     cell \in AmountCells}
    /\ conv = IdleConverter
    /\ workers = <<>>
    /\ calls = NoCalls
    /\ statements = <<>>
    /\ singletons = NoSingletons
    /\ pc = "file"

NextAmount ==
    \/ ConvertIdentify
    \/ ExtractTransactionRow
    \/ ConvertReturn

SpecAmount == InitAmount /\ [][NextAmount]_vars

\* the amount cell of the sheet converted
AmountCell == sheet[2][4]

\* C19: the amount parsed from a text cell is the number the text writes
\* once thousands separators and the currency markers (₹, Rs, INR) are
\* removed, negated when the text is wrapped in parentheses: "(1,250.50)"
\* gives -1250.50 and "₹12,000" gives 12000.0; a numeric cell gives its own
\* value.
C19_AmountParsed ==
    Converted =>
        LET t == statement_data.transactions[1]
        IN  /\ Len(statement_data.transactions) = 1
            /\ t.credit = t.balance
            /\ \A a \in AmountTexts :
                  AmountCell = Text(a.chars, None) => t.credit = Some(a.value)
            /\ AmountCell = Text(<<"(", "1", ",", "2", "5", "0", ".", "5", "0", ")">>, None)
                  => t.credit = Some(-250100)
            /\ AmountCell = Text(<<"₹", "1", "2", ",", "0", "0", "0">>, None)
                  => t.credit = Some(2400000)
            /\ AmountCell.kind = "num" => t.credit = Some(AmountCell.num)

\* what holds of amount parsing: the claim's two examples, numeric cells, and
\* every text in which no blank is left between the parenthesis and the
\* number once the marker is removed
AmountParsedWithoutInnerBlank ==
    Converted =>
        LET t == statement_data.transactions[1]
        IN  /\ \A a \in AmountTexts :
                  (/\ AmountCell = Text(a.chars, None)
                   /\ ~(Head(a.chars) = "(" /\ Contains(a.chars, <<" ">>)))
                  => t.credit = Some(a.value)
            /\ AmountCell = Text(<<"(", "1", ",", "2", "5", "0", ".", "5", "0", ")">>, None)
                  => t.credit = Some(-250100)
            /\ AmountCell = Text(<<"₹", "1", "2", ",", "0", "0", "0">>, None)
                  => t.credit = Some(2400000)
            /\ AmountCell.kind = "num" => t.credit = Some(AmountCell.num)

\* C20: a result the balance validator returned has status 'failed' or
\* passed = false only if it holds an error of severity error, and every
\* entry of its errors list, which error_count counts, has severity error.
C20_WarningsNeverFail ==
    pc = "done" =>
        LET r == result[1]
        IN  /\ (r.status = "failed" \/ ~r.passed)
                  => \E i \in 1..Len(r.errors) : r.errors[i].severity = "error"
            /\ \A i \in 1..Len(r.errors) : r.errors[i].severity = "error"

\* C21: for every statement validated, an empty transaction sequence
\* included, the result holds exactly one total_credits error when the stated
\* total_credits differs from the sum of the credits by more than the
\* tolerance and none otherwise, and likewise for total_debits, whatever the
\* earlier checks reported.
C21_TotalsCrossCheck ==
    pc = "done" =>
        LET sd == statement_data
            off(stated, f) ==
                stated # None /\ Abs(Val(stated) - SumOf(sd.transactions, f)) > tolerance
        IN  /\ sd.total_credits # None =>
                  Cardinality(ErrorsAt(result[1], "total_credits"))
                      = IF off(sd.total_credits, "credit") THEN 1 ELSE 0
            /\ sd.total_debits # None =>
                  Cardinality(ErrorsAt(result[1], "total_debits"))
                      = IF off(sd.total_debits, "debit") THEN 1 ELSE 0

(***************************************************************************)
(* Specification SpecHeader: a sheet of a header row and one row below it  *)
(* is converted, the header cells drawn from texts of known role.          *)
(***************************************************************************)

HeaderColumns == 3

\* header texts, each with the role the priority order gives it ("" for
\* none): "Withdrawal Date" also holds a debit keyword, "Description" a
\* credit keyword ("cr"), "Credit Balance" a balance keyword
HeaderTexts ==
    {[chars |-> <<"D", "a", "t", "e">>, role |-> "date"],
     [chars |-> <<"W", "i", "t", "h", "d", "r", "a", "w", "a", "l", " ", "D", "a", "t", "e">>, role |-> "date"],
     [chars |-> <<"D", "e", "s", "c", "r", "i", "p", "t", "i", "o", "n">>, role |-> "description"],
     [chars |-> <<" ", "D", "E", "B", "I", "T">>, role |-> "debit"],
     [chars |-> <<"C", "r">>, role |-> "credit"],
     [chars |-> <<"C", "r", "e", "d", "i", "t", " ", "B", "a", "l", "a", "n", "c", "e">>, role |-> "credit"],
     [chars |-> <<"B", "a", "l", "a", "n", "c", "e">>, role |-> "balance"],
     [chars |-> <<"R", "e", "f", " ", "N", "o">>, role |-> "reference"],
     [chars |-> <<"R", "e", "m", "a", "r", "k", "s">>, role |-> ""]}

InitHeader ==
    /\ results = <<>>
    /\ aggregated = <<>>
    /\ statement_data = NoStatement
    /\ today \in TodayInputs
    /\ result = <<>>
    /\ issues = <<>>
    /\ validation = <<>>
    /\ sheet \in {<<[c \in 1..HeaderColumns |-> Text(h[c].chars, None)],
                    [c \in 1..HeaderColumns |->
                        IF c = 1 THEN Timestamp(1) ELSE Num(400)]>> :
                     h \in [1..HeaderColumns -> HeaderTexts]}
    /\ conv = IdleConverter
    /\ workers = <<>>
    /\ calls = NoCalls
    /\ statements = <<>>
    /\ singletons = NoSingletons
    /\ pc = "file"

NextHeader ==
    \/ ConvertIdentify
    \/ ExtractTransactionRow
    \/ ConvertReturn

SpecHeader == InitHeader /\ [][NextHeader]_vars

\* the role the priority order gives the header text of column c (1-based)
RoleOfColumn(c) ==
    (CHOOSE h \in HeaderTexts : sheet[1][c] = Text(h.chars, None)).role

\* C22: once the structure of the sheet is identified, each role is mapped
\* to the right-most column whose header text has it as its highest-priority
\* matching role (date > description > debit > credit > balance >
\* reference), a role no column has is unmapped, and no column stands under
\* two roles.
C22_ColumnRoles ==
    pc # "file" =>
        /\ conv.header_row = 0
        /\ \A role \in Roles :
              LET cols == {c \in 1..HeaderColumns : RoleOfColumn(c) = role}
              IN  conv.column_mapping[role] =
                      IF cols = {} THEN None
                      ELSE Some((CHOOSE c \in cols : \A o \in cols : o <= c) - 1)
        /\ \A r1, r2 \in Roles :
              (r1 # r2 /\ conv.column_mapping[r1] # None)
                  => conv.column_mapping[r1] # conv.column_mapping[r2]

\* the header "Date | Withdrawal Date | Description" was identified: the date
\* role has the second column although the first matched it too, and the
\* third column is the description, not a credit
C22_Witness ==
    /\ pc = "ready"
    /\ RoleOfColumn(1) = "date"
    /\ sheet[1][2].chars = <<"W", "i", "t", "h", "d", "r", "a", "w", "a", "l", " ", "D", "a", "t", "e">>
    /\ sheet[1][3].chars = <<"D", "e", "s", "c", "r", "i", "p", "t", "i", "o", "n">>
    /\ conv.column_mapping["date"] = Some(1)
    /\ conv.column_mapping["description"] = Some(2)
    /\ conv.column_mapping["debit"] = None
    /\ conv.column_mapping["credit"] = None

(***************************************************************************)
(* Specification SpecScan: sheets with up to MaxAbove rows of bank details *)
(* above the rows in which a header may stand are converted.               *)
(***************************************************************************)

MaxAbove == 11
MaxBelow == 3

\* rows with and without a date, debit or credit keyword in their text
ScanRows ==
    {\* a header
     [cells |-> <<Text(<<"D", "a", "t", "e">>, None), Text(<<"N", "a", "r", "r", "a", "t", "i", "o", "n">>, None), Text(<<"D", "e", "b", "i", "t">>, None),
                  Text(<<"C", "r", "e", "d", "i", "t">>, None), Text(<<"B", "a", "l", "a", "n", "c", "e">>, None)>>,
      keyword |-> TRUE],
     \* 2.00 credited
     [cells |-> <<Timestamp(1), ATM, Num(0), Num(400), Num(2400)>>,
      keyword |-> FALSE],
     \* 2.00 debited, described as "Cash Withdrawal"
     [cells |-> <<Timestamp(2), Text(<<"C", "a", "s", "h", " ", "W", "i", "t", "h", "d", "r", "a", "w", "a", "l">>, None),
                  Num(400), Num(0), Num(2000)>>,
      keyword |-> TRUE]}

\* a row of bank details: no keyword
DetailsRow == [cells |-> MetadataRow, keyword |-> FALSE]

ScanSheets ==
    {[k \in 1..above |-> DetailsRow] \o rows :
        above \in 0..MaxAbove,
        rows \in UNION {[1..n -> ScanRows] : n \in 1..MaxBelow}}

InitScan ==
    /\ results = <<>>
    /\ aggregated = <<>>
    /\ statement_data = NoStatement
    /\ today \in TodayInputs
    /\ result = <<>>
    /\ issues = <<>>
    /\ validation = <<>>
    /\ sheet \in {[i \in 1..Len(s) |-> s[i].cells] : s \in ScanSheets}
    /\ conv = IdleConverter
    /\ workers = <<>>
    /\ calls = NoCalls
    /\ statements = <<>>
    /\ singletons = NoSingletons
    /\ pc = "file"

NextScan ==
    \/ ConvertIdentify
    \/ ExtractTransactionRow
    \/ ConvertReturn

SpecScan == InitScan /\ [][NextScan]_vars

\* the indices (0-based) of the rows of the sheet whose text holds a date,
\* debit or credit keyword
KeywordRows ==
    {i \in 0..(Len(sheet) - 1) :
        \E r \in ScanRows : r.keyword /\ r.cells = sheet[i + 1]}

\* C23: once the structure is identified, the header row index is the
\* smallest index below min(10, number of rows) of a row whose text holds a
\* date, debit or credit keyword, and 0 when there is no such row; it is
\* never 10 or more; and the transactions emitted come from the rows after
\* the header row, never from the header row itself.
C23_HeaderRow ==
    pc # "file" =>
        LET scanned == {i \in KeywordRows : i < 10 /\ i < Len(sheet)}
        IN  /\ conv.df = sheet
            /\ conv.header_row =
                   IF scanned = {} THEN 0
                   ELSE CHOOSE i \in scanned : \A o \in scanned : i <= o
            /\ conv.header_row < 10
            /\ conv.idx <= Len(sheet) - conv.header_row - 1
            /\ \E emitted \in {ExtractRows(SubSeq(sheet, conv.header_row + 2,
                                                 conv.header_row + 1 + conv.idx),
                                          conv.column_mapping, NoRows)} :
                  conv.walk = emitted

\* a sheet whose header stands at index 10, under ten rows of bank details,
\* was converted: row 0 was taken as the header row and the row after the
\* real header was still emitted
C23_Witness ==
    /\ pc = "ready"
    /\ Len(sheet) = 12
    /\ KeywordRows = {10}
    /\ conv.header_row = 0
    /\ Len(statement_data.transactions) = 1

(***************************************************************************)
(* The validators over several statements:                                 *)
(* DateSequencingValidator.validate_multi_statement_periods and            *)
(* BalanceValidator.validate_multi_statement_continuity.  A period date is *)
(* a string here: its year, month and day and the format it is written in. *)
(***************************************************************************)

DateText(y, m, d, fmt) == [y |-> y, m |-> m, d |-> d, fmt |-> fmt]

\* the order of two date strings as Python compares str: the fields are
\* zero-padded, so the strings compare as their fields in written order
DateTextKey(t) ==
    IF t.fmt = "%Y-%m-%d" THEN <<t.y, t.m, t.d>> ELSE <<t.d, t.m, t.y>>

StrLess(a, b) ==
    LET ka == DateTextKey(a)
        kb == DateTextKey(b)
    IN  \/ ka[1] < kb[1]
        \/ ka[1] = kb[1] /\ ka[2] < kb[2]
        \/ ka[1] = kb[1] /\ ka[2] = kb[2] /\ ka[3] < kb[3]

\* days of the year before each month (of a year that is not a leap year)
DaysBeforeMonth == <<0, 31, 59, 90, 120, 151, 181, 212, 243, 273, 304, 334>>

\* DateSequencingValidator._parse_date on a date string: fromisoformat reads
\* '%Y-%m-%d', strptime reads '%d-%m-%Y'; the datetime as a day number
parse_date_text(date_value) ==
    IF date_value = None THEN None
    ELSE LET t == Val(date_value)
         IN  Some(t.y * 365 + DaysBeforeMonth[t.m] + t.d)

RECURSIVE sorted(_, _)
\* sorted(statements, key=lambda s: s.get(field)): stable, by str comparison
sorted(stmts, field) ==
    IF stmts = <<>> THEN <<>>
    ELSE
    LET front == sorted(SubSeq(stmts, 1, Len(stmts) - 1), field)
        last == stmts[Len(stmts)]
        keep == Cardinality({i \in 1..Len(front) :
                    ~StrLess(Val(last[field]), Val(front[i][field]))})
    IN  SubSeq(front, 1, keep) \o <<last>> \o SubSeq(front, keep + 1, Len(front))

RECURSIVE WalkPeriods(_, _, _)
\* the loop over consecutive pairs of validate_multi_statement_periods from
\* i (0-based) on
WalkPeriods(stmts, i, r) ==
    IF i >= Len(stmts) - 1 THEN r
    ELSE
    LET current_to == parse_date_text(stmts[i + 1].statement_period_to)
        next_from == parse_date_text(stmts[i + 2].statement_period_from)
    IN  IF current_to = None \/ next_from = None
        THEN WalkPeriods(stmts, i + 1, r)
        ELSE
        LET r1 == IF Val(current_to) >= Val(next_from)
                  THEN add_error(r, ValidationError("cross_doc_inconsistency", "error",
                                                    "Statement periods overlap", "", i))
                  ELSE r
            gap_days == Val(next_from) - Val(current_to) - 1
        IN  WalkPeriods(stmts, i + 1,
                IF gap_days > 7
                THEN add_warning(r1, ValidationWarning("statement_gap", "", <<i>>))
                ELSE r1)

\* DateSequencingValidator.validate_multi_statement_periods, sort_by_date
\* left at its default
validate_multi_statement_periods(stmts) ==
    IF Len(stmts) < 2 THEN ValidationResult("date_sequencing_validator_multi")
    ELSE WalkPeriods(sorted(stmts, "statement_period_from"), 0,
                     ValidationResult("date_sequencing_validator_multi"))

RECURSIVE WalkContinuity(_, _, _)
\* the loop over consecutive pairs of validate_multi_statement_continuity
WalkContinuity(stmts, i, r) ==
    IF i >= Len(stmts) - 1 THEN r
    ELSE
    LET current_closing == _to_decimal(stmts[i + 1].closing_balance)
        next_opening == _to_decimal(stmts[i + 2].opening_balance)
    IN  WalkContinuity(stmts, i + 1,
            IF /\ current_closing # None
               /\ next_opening # None
               /\ Abs(Val(current_closing) - Val(next_opening)) > tolerance
            THEN add_error(r, ValidationError("cross_doc_inconsistency", "error",
                                              "Balance discontinuity between statements", "", i))
            ELSE r)

\* BalanceValidator.validate_multi_statement_continuity, sort_by_date left
\* at its default
validate_multi_statement_continuity(stmts) ==
    IF Len(stmts) < 2
    THEN add_warning(ValidationResult("balance_validator_multi"),
                     ValidationWarning("insufficient_statements", "", <<>>))
    ELSE WalkContinuity(sorted(stmts, "statement_period_to"), 0,
                        ValidationResult("balance_validator_multi"))

(***************************************************************************)
(* Specification SpecMulti: a list of statements, their period dates all   *)
(* written in one format, is handed to one of the two validators.          *)
(***************************************************************************)

MaxStatements == 3

DateFormats == {"%Y-%m-%d", "%d-%m-%Y"}

\* 20 January, 5 February and 25 February 2023
PeriodDays == {<<1, 20>>, <<2, 5>>, <<2, 25>>}

\* statements with period_from <= period_to, closing balance 12.00 and
\* opening balance 10.00 or 12.00
MultiStatements(fmt) ==
    {[statement_period_from |-> Some(DateText(2023, p[1][1], p[1][2], fmt)),
      statement_period_to |-> Some(DateText(2023, p[2][1], p[2][2], fmt)),
      opening_balance |-> Some(o),
      closing_balance |-> Some(2400)] :
        p \in {q \in PeriodDays \X PeriodDays :
                  \/ q[2][1] > q[1][1]
                  \/ q[2][1] = q[1][1] /\ q[2][2] >= q[1][2]},
        o \in {2000, 2400}}

InitMulti ==
    /\ results = <<>>
    /\ aggregated = <<>>
    /\ statement_data = NoStatement
    /\ today = 0
    /\ result = <<>>
    /\ issues = <<>>
    /\ validation = <<>>
    /\ sheet = <<>>
    /\ conv = IdleConverter
    /\ workers = <<>>
    /\ calls = NoCalls
    /\ \E fmt \in DateFormats :
          statements \in SeqsUpTo(MultiStatements(fmt), MaxStatements)
    /\ singletons = NoSingletons
    /\ pc = "multi"

\* result = date_validator.validate_multi_statement_periods(statements)
ValidateMultiStatementPeriods ==
    /\ pc = "multi"
    /\ result' = <<validate_multi_statement_periods(statements)>>
    /\ pc' = "periods"
    /\ UNCHANGED <<singletons, statements, calls, workers, modelVars, statement_data, today,
                   evVars, convVars>>

\* result = balance_validator.validate_multi_statement_continuity(statements)
ValidateMultiStatementContinuity ==
    /\ pc = "multi"
    /\ result' = <<validate_multi_statement_continuity(statements)>>
    /\ pc' = "continuity"
    /\ UNCHANGED <<singletons, statements, calls, workers, modelVars, statement_data, today,
                   evVars, convVars>>

NextMulti == ValidateMultiStatementPeriods \/ ValidateMultiStatementContinuity

SpecMulti == InitMulti /\ [][NextMulti]_vars

\* the first and the last day of the period of statement i
PeriodFrom(i) == Val(parse_date_text(statements[i].statement_period_from))
PeriodTo(i) == Val(parse_date_text(statements[i].statement_period_to))

\* two of the statements have periods that share a day
PeriodsOverlap ==
    \E i, j \in 1..Len(statements) :
        i < j /\ PeriodFrom(i) <= PeriodTo(j) /\ PeriodFrom(j) <= PeriodTo(i)

\* C24: after validate_multi_statement_periods on statements with valid
\* periods written in one format, the result holds at least one
\* cross-document error when two of the periods, adjacent in start-date
\* order or not, share a day, and no error when no two periods share a day.
C24_OverlapsReported ==
    pc = "periods" =>
        IF PeriodsOverlap THEN Len(result[1].errors) >= 1
        ELSE Len(result[1].errors) = 0

\* with the dates written as '%Y-%m-%d' the statement of C24 holds
OverlapsReportedForIsoDates ==
    (\A i \in 1..Len(statements) :
        Val(statements[i].statement_period_from).fmt = "%Y-%m-%d")
    => C24_OverlapsReported

\* the statements in the order of their period ends, which are distinct
ByPeriodEnd ==
    LET n == Len(statements)
        order == CHOOSE p \in [1..n -> 1..n] :
                     \A i, j \in 1..n : i < j => PeriodTo(p[i]) < PeriodTo(p[j])
    IN  [i \in 1..n |-> statements[order[i]]]

\* the positions (0-based) in that order after which the balance breaks:
\* the closing balance and the next opening balance differ by more than the
\* tolerance
Discontinuities ==
    {i \in 0..(Len(statements) - 2) :
        Abs(Val(ByPeriodEnd[i + 1].closing_balance)
            - Val(ByPeriodEnd[i + 2].opening_balance)) > tolerance}

\* C25: after validate_multi_statement_continuity on two or more statements
\* with distinct period end dates, the result holds exactly one
\* cross-document error for each pair adjacent in period-end order whose
\* closing and next opening balance differ by more than the tolerance and no
\* other error, and any reordering of the statements gives the same result.
C25_ContinuityReported ==
    (/\ pc = "continuity"
     /\ Len(statements) >= 2
     /\ \A i, j \in 1..Len(statements) : i # j => PeriodTo(i) # PeriodTo(j))
    => /\ Len(result[1].errors) = Cardinality(Discontinuities)
       /\ {result[1].errors[k].index : k \in 1..Len(result[1].errors)}
              = Discontinuities
       /\ \A p \in [1..Len(statements) -> 1..Len(statements)] :
              (\A i, j \in 1..Len(statements) : i # j => p[i] # p[j])
              => validate_multi_statement_continuity(
                     [i \in 1..Len(statements) |-> statements[p[i]]]) = result[1]

\* with the dates written as '%Y-%m-%d' the statement of C25 holds
ContinuityReportedForIsoDates ==
    (\A i \in 1..Len(statements) :
        Val(statements[i].statement_period_to).fmt = "%Y-%m-%d")
    => C25_ContinuityReported

\* the number of errors of the containment check r holds for the
\* transaction at idx
OutOfRangeErrors(r, idx) ==
    Cardinality({k \in 1..Len(r.errors) :
                    /\ r.errors[k].error_type = "date_out_of_range"
                    /\ r.errors[k].message = "outside statement period"
                    /\ r.errors[k].index = idx})

\* the transaction at idx (0-based) of sd has a date that parses and lies
\* before from or after to
OutsidePeriod(sd, idx, from, to) ==
    LET trans_date == _parse_date(sd.transactions[idx + 1].date)
    IN  trans_date # None /\ (Val(trans_date) < from \/ Val(trans_date) > to)

\* C26 as stated: when both period dates are present, the result holds
\* exactly one out-of-range error for each transaction dated before
\* statement_period_from or after statement_period_to and none for the
\* others.
C26_Original ==
    (/\ pc = "done"
     /\ statement_data.statement_period_from # None
     /\ statement_data.statement_period_to # None)
    => \A idx \in 0..(Len(statement_data.transactions) - 1) :
          OutOfRangeErrors(result[1], idx) =
              IF OutsidePeriod(statement_data, idx,
                               Val(statement_data.statement_period_from),
                               Val(statement_data.statement_period_to))
              THEN 1 ELSE 0

\* C26, amended: when both period dates are present and parse, the result
\* holds exactly one out-of-range error for each transaction whose date
\* parses and is before statement_period_from or after statement_period_to
\* and none for a transaction dated on a bound or between them (when a
\* period date does not parse the containment check is skipped); so a
\* statement whose period is the dates of its first and last transaction
\* gets such an error exactly for the transactions dated before its first
\* or after its last transaction.
C26_Containment ==
    LET sd == statement_data
        period_from == _parse_date(sd.statement_period_from)
        period_to == _parse_date(sd.statement_period_to)
        n == Len(sd.transactions)
    IN  pc = "done" =>
        /\ (period_from # None /\ period_to # None) =>
              \A idx \in 0..(n - 1) :
                  OutOfRangeErrors(result[1], idx) =
                      IF OutsidePeriod(sd, idx, Val(period_from), Val(period_to))
                      THEN 1 ELSE 0
        /\ (period_from = None \/ period_to = None) =>
              \A idx \in 0..(n - 1) : OutOfRangeErrors(result[1], idx) = 0
        /\ (/\ n >= 1
            /\ \A i \in 1..n : _parse_date(sd.transactions[i].date) # None
            /\ sd.statement_period_from = sd.transactions[1].date
            /\ sd.statement_period_to = sd.transactions[n].date)
           => \A idx \in 0..(n - 1) :
                 OutOfRangeErrors(result[1], idx) =
                     IF \/ Val(sd.transactions[idx + 1].date) < Val(sd.transactions[1].date)
                        \/ Val(sd.transactions[idx + 1].date) > Val(sd.transactions[n].date)
                     THEN 1 ELSE 0

\* a statement whose period runs from its first transaction (day 1) to its
\* last (day 3) and whose middle transaction is dated day 100 was validated:
\* the middle transaction alone has an out-of-range error
C26_Witness ==
    /\ pc = "done"
    /\ Len(statement_data.transactions) = 3
    /\ statement_data.transactions[1].date = Some(1)
    /\ statement_data.transactions[2].date = Some(100)
    /\ statement_data.transactions[3].date = Some(3)
    /\ statement_data.statement_period_from = Some(1)
    /\ statement_data.statement_period_to = Some(3)
    /\ OutOfRangeErrors(result[1], 0) = 0
    /\ OutOfRangeErrors(result[1], 1) = 1
    /\ OutOfRangeErrors(result[1], 2) = 0

(***************************************************************************)
(* Specification SpecMetadata: sheets with up to MaxDetails rows of bank   *)
(* details above the header, and rows below it, are converted.             *)
(***************************************************************************)

MaxDetails == 2

\* rows of bank details, each with what its text holds: an account number
\* (a run of 10 to 16 digits), an IFSC code, a bank name
DetailsRows ==
    {[cells |-> <<Text(<<"H", "D", "F", "C", " ", "B", "a", "n", "k">>, None),
                  Text(<<"A", "/", "c", " ", "1", "2", "3", "4", "5", "6", "7", "8", "9", "0", "1">>, None), NaN, NaN, NaN>>,
      account |-> Some(<<"1", "2", "3", "4", "5", "6", "7", "8", "9", "0", "1">>),
      ifsc |-> None,
      bank |-> Some(<<"H", "D", "F", "C">>)],
     [cells |-> <<Text(<<"9", "8", "7", "6", "5", "4", "3", "2", "1", "0">>, None),
                  Text(<<"S", "B", "I", "N", "0", "0", "0", "1", "2", "3", "4">>, None), NaN, NaN, NaN>>,
      account |-> Some(<<"9", "8", "7", "6", "5", "4", "3", "2", "1", "0">>),
      ifsc |-> Some(<<"S", "B", "I", "N", "0", "0", "0", "1", "2", "3", "4">>),
      bank |-> Some(<<"S", "B", "I">>)],
     \* seventeen digits, and nine digits: no account number
     [cells |-> <<Text(<<"1", "2", "3", "4", "5", "6", "7", "8", "9", "0", "1", "2", "3", "4", "5", "6", "7">>, None),
                  Text(<<"1", "2", "3", "4", "5", "6", "7", "8", "9">>, None), NaN, NaN, NaN>>,
      account |-> None, ifsc |-> None, bank |-> None],
     [cells |-> <<Text(<<"S", "t", "a", "t", "e", "m", "e", "n", "t">>, None), NaN, NaN, NaN, NaN>>,
      account |-> None, ifsc |-> None, bank |-> None]}

\* rows below the header: a transaction, and a row that names an account
BelowRows ==
    {<<Timestamp(1), ATM, Num(0), Num(400), Num(2400)>>,
     <<Timestamp(2), Text(<<"1", "1", "1", "1", "1", "2", "2", "2", "2", "2", "3", "3">>, None),
       Num(400), Num(0), Num(2000)>>}

\* the rows of bank details above the header of the sheet
DetailsAbove ==
    {above \in SeqsUpTo(DetailsRows, MaxDetails) :
        /\ Len(above) < Len(sheet)
        /\ \A i \in 1..Len(above) : above[i].cells = sheet[i]
        /\ sheet[Len(above) + 1] = AmountHeader}

InitMetadata ==
    /\ results = <<>>
    /\ aggregated = <<>>
    /\ statement_data = NoStatement
    /\ today \in TodayInputs
    /\ result = <<>>
    /\ issues = <<>>
    /\ validation = <<>>
    /\ sheet \in {[i \in 1..Len(above) |-> above[i].cells] \o <<AmountHeader>> \o below :
                     above \in SeqsUpTo(DetailsRows, MaxDetails),
                     below \in SeqsUpTo(BelowRows, 2) \ {<<>>}}
    /\ conv = IdleConverter
    /\ workers = <<>>
    /\ calls = NoCalls
    /\ statements = <<>>
    /\ singletons = NoSingletons
    /\ pc = "file"

NextMetadata ==
    \/ ConvertIdentify
    \/ ExtractTransactionRow
    \/ ConvertReturn

SpecMetadata == InitMetadata /\ [][NextMetadata]_vars

\* the value of field in the first (last) of the rows that holds one
FirstOf(above, field) ==
    LET holding == {i \in 1..Len(above) : above[i][field] # None}
    IN  IF holding = {} THEN None
        ELSE above[CHOOSE i \in holding : \A o \in holding : i <= o][field]
LastOf(above, field) ==
    LET holding == {i \in 1..Len(above) : above[i][field] # None}
    IN  IF holding = {} THEN None
        ELSE above[CHOOSE i \in holding : \A o \in holding : i >= o][field]

\* C27: once the structure is identified, the metadata is what the rows
\* strictly above the header row hold and nothing of the rows below:
\* account_number is the match of the top-most row above the header with a
\* run of 10 to 16 digits, unchanged by every later row, and a field no row
\* above the header matches is null.
C27_MetadataAboveHeader ==
    pc # "file" =>
        \A above \in DetailsAbove :
            /\ conv.header_row = Len(above)
            /\ conv.metadata.account_number = FirstOf(above, "account")
            /\ conv.metadata.ifsc_code = LastOf(above, "ifsc")
            /\ conv.metadata.bank_name = LastOf(above, "bank")
            /\ conv.metadata.account_holder_name = None
            /\ conv.metadata.branch_name = None
            /\ Converted => statement_data.account_number = FirstOf(above, "account")

\* a sheet with two rows of bank details naming different accounts, and a
\* row below the header naming a third, was converted: the account number is
\* that of the first row
C27_Witness ==
    /\ pc = "ready"
    /\ conv.header_row = 2
    /\ \E above \in DetailsAbove :
          /\ above[1].account # None
          /\ above[2].account # None
          /\ above[1].account # above[2].account
          /\ statement_data.account_number = above[1].account
    /\ \E i \in 4..Len(sheet) : sheet[i][2].kind = "text" /\ Len(sheet[i][2].chars) = 12

IgnoredAmount(transaction) ==
    IF Val(transaction.credit) > 0 THEN Abs(Val(transaction.debit))
                                   ELSE Abs(Val(transaction.credit))

\* what the rows after the first can add to the reconciliation difference
\* without a progression error: the tolerance and the ignored amount of each
DriftBound(t) ==
    SumSeq([i \in 1..(Len(t) - 1) |-> tolerance + IgnoredAmount(t[i + 1])])

\* |closing - (opening + total_credits - total_debits)| of a statement
ReconciliationDifference(sd) ==
    Abs(Val(sd.closing_balance)
        - (Val(sd.opening_balance) + Val(sd.total_credits)
                                   - Val(sd.total_debits)))

ToleranceInputs == {tolerance, 20, BALANCE_TOLERANCE}

\* the max_gap_days passed
GapInputs == {30, max_gap_days, 90}

InitFactory ==
    /\ results = <<>>
    /\ aggregated = <<>>
    /\ statement_data = NoStatement
    /\ today = 0
    /\ result = <<>>
    /\ issues = <<>>
    /\ validation = <<>>
    /\ sheet = <<>>
    /\ conv = IdleConverter
    /\ workers = <<>>
    /\ calls = NoCalls
    /\ statements = <<>>
    /\ singletons = NoSingletons
    /\ pc = "factory"

\* validator = get_balance_validator(tol); applied is the self.tolerance the
\* checks of the instance returned compare a difference with
GetBalanceValidator ==
    /\ pc = "factory"
    /\ Len(calls.returned) < MaxCalls
    /\ \E tol \in ToleranceInputs :
          \E global \in {get_balance_validator(singletons._balance_validator, tol)} :
             /\ singletons' = [singletons EXCEPT !._balance_validator = global]
             /\ calls' = [calls EXCEPT !.returned =
                            Append(@, [fn |-> "get_balance_validator",
                                       arg |-> tol,
                                       applied |-> Val(global).tolerance])]
    /\ UNCHANGED <<statements, modelVars, runVars, evVars, convVars, workers, pc>>

\* validator = get_date_validator(gap); applied is the self.max_gap_days the
\* gap check of the instance returned compares a gap with
GetDateValidator ==
    /\ pc = "factory"
    /\ Len(calls.returned) < MaxCalls
    /\ \E gap \in GapInputs :
          \E global \in {get_date_validator(singletons._date_validator, gap)} :
             /\ singletons' = [singletons EXCEPT !._date_validator = global]
             /\ calls' = [calls EXCEPT !.returned =
                            Append(@, [fn |-> "get_date_validator",
                                       arg |-> gap,
                                       applied |-> Val(global).max_gap_days])]
    /\ UNCHANGED <<statements, modelVars, runVars, evVars, convVars, workers, pc>>

NextFactory == GetBalanceValidator \/ GetDateValidator

SpecFactory == InitFactory /\ [][NextFactory]_vars

\* C29: after any sequence of get_balance_validator(tolerance) and
\* get_date_validator(max_gap_days) calls, the validator a call returned
\* applies the tolerance, or the max_gap_days, passed to that call, whatever
\* the arguments of the earlier calls were.
C29_FactoryAppliesArgument ==
    \A i \in 1..Len(calls.returned) :
        calls.returned[i].applied = calls.returned[i].arg

\* every call the first of its factory: each validator applies its argument
FirstCallsApplyArgument ==
    \A i \in 1..Len(calls.returned) :
        (\A j \in 1..(i - 1) : calls.returned[j].fn # calls.returned[i].fn)
            => calls.returned[i].applied = calls.returned[i].arg

\* every validator applies the argument of the first call of its factory
LaterCallsApplyFirstArgument ==
    \A i, j \in 1..Len(calls.returned) :
        calls.returned[j].fn = calls.returned[i].fn
            => calls.returned[j].applied = calls.returned[i].applied

\* skipped_reasons["empty_row"] + ["no_date"] + ["parse_fail"] of a walk
TalliedSkips(walk) ==
    walk.skipped_reasons["empty_row"] + walk.skipped_reasons["no_date"]
        + walk.skipped_reasons["parse_fail"]

\* C30: throughout the row walk, and after it, the transactions emitted and
\* the rows tallied as empty_row, no_date and parse_fail add up to the rows
\* processed so far, and the skipped count equals the sum of the three
\* tallies.
C30_RowsAccounted ==
    (pc = "rows" \/ Converted)
        => /\ Len(conv.walk.transactions) + TalliedSkips(conv.walk) = conv.idx
           /\ conv.walk.skipped_count = TalliedSkips(conv.walk)

\* a walk that has finished with a row emitted, a row skipped for its
\* unparsable date and a row skipped for another reason
C30_Witness ==
    /\ Converted
    /\ conv.idx = Len(transactions_df(conv))
    /\ Len(conv.walk.transactions) >= 1
    /\ conv.walk.skipped_reasons["parse_fail"] = 1
    /\ conv.walk.skipped_count = 2

=============================================================================
